---------------------------- MODULE Spec2Model ----------------------------
(***************************************************************************)
(* A model of the reactive core of src/src/juris.js: the StateManager      *)
(* (path-addressed state tree, internal and external subscription          *)
(* registries, dependency tracking, batching, reentrancy guard) and the    *)
(* renderer's _createReactiveUpdate, which registers tracked bindings.     *)
(*                                                                         *)
(* A JavaScript string is a sequence of one-character strings, so that     *)
(* split('.'), join('.'), startsWith and includes('..') are computed.      *)
(* A JavaScript value is a tagged record.  A Map or Set is a sequence in   *)
(* insertion order, which is the order forEach visits.                     *)
(***************************************************************************)
EXTENDS Integers, Sequences, FiniteSets, TLC

VARIABLES
    state,                \* StateManager.state: the state tree (root object)
    middleware,           \* StateManager.middleware
    subscribers,          \* StateManager.subscribers: Map path -> Set(callback)
    externalSubscribers,  \* StateManager.externalSubscribers: Map path -> Set({callback, hierarchical})
    currentTracking,      \* StateManager.currentTracking: null (0) or a dependency set
    isUpdating,           \* StateManager.isUpdating
    currentlyUpdating,    \* StateManager.currentlyUpdating
    isBatching,           \* StateManager.isBatching
    batchQueue,           \* StateManager.batchQueue
    batchedPaths,         \* StateManager.batchedPaths
    promises,             \* deferred values returned by executeBatch callbacks, not yet settled
    lastRead,             \* per callback, the paths its most recent tracked run read
    unsubs,               \* unsubscribe closures held by callers
    nextSub,              \* identity of the next {callback, hierarchical} object
    last,                 \* the last call made on the store, and how it ended
    log,                  \* the callbacks invoked during the last call, in order
    steps,                \* number of calls made so far
    written,              \* the paths setState was called with (kept by SpecTree)
    dom,                  \* one element with reactive children (kept by SpecChildren)
    cm,                   \* the ComponentManager and the elements it made (kept by SpecComponents)
    page                  \* the nodes bound to deferred values (kept by SpecAsync)

storeVars == <<state, middleware, subscribers, externalSubscribers, currentTracking,
               isUpdating, currentlyUpdating, isBatching, batchQueue, batchedPaths,
               promises, lastRead, unsubs, nextSub, last, log, steps, written>>

rendererVars == <<dom, cm, page>>

vars == <<storeVars, rendererVars>>

---------------------------------------------------------------------------
(* Bounds of the model *)

MaxSteps == 3

\* calls made on the store in SpecTree
MaxTreeSteps == 3

---------------------------------------------------------------------------
(* JavaScript values *)

Undefined == [t |-> "undefined"]
Null == [t |-> "null"]
Num(n) == [t |-> "number", n |-> n]
Obj(f) == [t |-> "object", f |-> f]
EmptyMap == << >>

IsObj(v) == v.t = "object"

\* typeof v
TypeOf(v) == IF v.t = "null" THEN "object" ELSE v.t

\* v == null
LooseNull(v) == v.t \in {"null", "undefined"}

\* Object.keys(v)
Keys(v) == DOMAIN v.f

\* the property name every object inherits from its prototype
ConstructorKey == <<"c", "o", "n", "s", "t", "r", "u", "c", "t", "o", "r">>

\* Object, Number: the value of v.constructor when v has no own property of that name
Builtin(v) == [t |-> "function", name |-> v.t]

\* v?.[key]: an own property, else the one inherited from the prototype
Prop(v, key) ==
    IF IsObj(v) /\ key \in Keys(v) THEN v.f[key]
    ELSE IF key = ConstructorKey /\ ~LooseNull(v) THEN Builtin(v)
    ELSE Undefined

---------------------------------------------------------------------------
(* Strings and paths *)

Dot == "."
Space == " "

\* the key current[undefined] = ... assigns when a path has no parts
UndefinedKey == <<"u", "n", "d", "e", "f", "i", "n", "e", "d">>

P_a == <<"a">>
P_ab == <<"a", ".", "b">>
P_ax == <<"a", "x">>
P_dots == <<"a", ".", ".", "b">>
P_blank == <<Space>>

\* s.includes('..')
IncludesDotDot(s) == \E i \in 1..(Len(s) - 1) : s[i] = Dot /\ s[i + 1] = Dot

\* s.trim().length > 0
TrimNonEmpty(s) == \E i \in 1..Len(s) : s[i] # Space

\* s.startsWith(prefix)
StartsWith(s, prefix) ==
    /\ Len(prefix) <= Len(s)
    /\ SubSeq(s, 1, Len(prefix)) = prefix

isValidPath(path) == TrimNonEmpty(path) /\ ~IncludesDotDot(path)

RECURSIVE Split(_, _)
\* s.split('.') with cur the piece being read
Split(s, cur) ==
    IF s = << >> THEN <<cur>>
    ELSE IF Head(s) = Dot THEN <<cur>> \o Split(Tail(s), << >>)
    ELSE Split(Tail(s), Append(cur, Head(s)))

getPathParts(path) == SelectSeq(Split(path, << >>), LAMBDA piece : piece # << >>)

RECURSIVE Join(_)
\* parts.join('.')
Join(parts) ==
    IF parts = << >> THEN << >>
    ELSE IF Len(parts) = 1 THEN parts[1]
    ELSE parts[1] \o <<Dot>> \o Join(Tail(parts))

---------------------------------------------------------------------------
(* deepEquals *)

RECURSIVE deepEquals(_, _)
deepEquals(a, b) ==
    IF a.t = b.t /\ ~IsObj(a) /\ a = b THEN TRUE           \* a === b on primitives
    ELSE IF LooseNull(a) \/ LooseNull(b) \/ TypeOf(a) # TypeOf(b) THEN FALSE
    ELSE IF TypeOf(a) = "object"
         THEN /\ Cardinality(Keys(a)) = Cardinality(Keys(b))
              /\ \A key \in Keys(a) : key \in Keys(b) /\ deepEquals(a.f[key], b.f[key])
    ELSE FALSE

---------------------------------------------------------------------------
(* The state tree *)

RECURSIVE Descend(_, _, _)
\* the loop of getState: undefined on the way means the default
Descend(current, parts, defaultValue) ==
    IF parts = << >> THEN current
    ELSE IF Prop(current, Head(parts)) = Undefined THEN defaultValue
    ELSE Descend(Prop(current, Head(parts)), Tail(parts), defaultValue)

\* getState's value, without the tracking
ReadTree(tree, path, defaultValue) ==
    IF ~isValidPath(path) THEN defaultValue
    ELSE Descend(Obj(tree), getPathParts(path), defaultValue)

RECURSIVE AssignIn(_, _, _)
\* the descent and assignment of #setStateImmediate: a level that is null,
\* undefined or not an object is replaced by {}
AssignIn(obj, parts, value) ==
    IF Len(parts) = 0 THEN (UndefinedKey :> value) @@ obj
    ELSE IF Len(parts) = 1 THEN (parts[1] :> value) @@ obj
    ELSE LET part == Head(parts)
             cur == Prop(Obj(obj), part)
             child == IF LooseNull(cur) \/ TypeOf(cur) # "object" THEN EmptyMap ELSE cur.f
         IN (part :> Obj(AssignIn(child, Tail(parts), value))) @@ obj

---------------------------------------------------------------------------
(* Maps and Sets in insertion order *)

\* set.add(x)
SetAdd(seq, x) == IF \E i \in 1..Len(seq) : seq[i] = x THEN seq ELSE Append(seq, x)

\* set.delete(x)
SetDelete(seq, x) == SelectSeq(seq, LAMBDA y : y # x)

\* set.has(x)
SetHas(seq, x) == \E i \in 1..Len(seq) : seq[i] = x

\* map.has(path); a map is a sequence of [path, subs]
MapHas(map, path) == \E i \in 1..Len(map) : map[i].path = path

\* map.get(path), the empty sequence standing for undefined
MapGet(map, path) ==
    IF MapHas(map, path)
    THEN map[CHOOSE i \in 1..Len(map) : map[i].path = path].subs
    ELSE << >>

\* map.set(path, subs)
MapSet(map, path, subs) ==
    IF MapHas(map, path)
    THEN [i \in 1..Len(map) |-> IF map[i].path = path THEN [path |-> path, subs |-> subs] ELSE map[i]]
    ELSE Append(map, [path |-> path, subs |-> subs])

\* map.delete(path)
MapDelete(map, path) == SelectSeq(map, LAMBDA e : e.path # path)

\* [...map.keys()]
MapKeys(map) == [i \in 1..Len(map) |-> map[i].path]

RECURSIVE Dedup(_)
\* new Set(seq), as a sequence
Dedup(seq) ==
    IF seq = << >> THEN << >>
    ELSE LET front == Dedup(SubSeq(seq, 1, Len(seq) - 1))
         IN SetAdd(front, seq[Len(seq)])

---------------------------------------------------------------------------
(* Callbacks and batch functions: the code the application hands to the    *)
(* store.  Each name stands for one function object.                       *)

\* subscriber callbacks
\*   obs  reads and writes nothing
\*   r1   if (getState('ax') === 1) getState('a.b')
\*   w1   setState('a', getState('a') === 1 ? 2 : 1)
\*   bw   executeBatch(() => setState('a', getState('a') === 1 ? 2 : 1))
\*   boom getState('a.x'); throw new Error()
\*   boomc getState('a.x'); const e = {}; e.self = e; throw e
\*   wx   setState('a.x', 1)
\*   rc   getState('ax'); render({C: {}}); getState('a'), the registered
\*        factory of C being (props, ctx) => { ctx.getState('a.b'); return {div: {}} }
Callbacks == {"obs", "r1", "w1", "bw", "boom", "boomc", "wx", "rc"}

\* functions handed to executeBatch: the statements run synchronously, and
\* how the function ends (returns 7, throws, or returns a pending promise)
Fn(name) ==
    CASE name = "twice"  -> [body |-> <<[op |-> "set", path |-> P_a, value |-> Num(1)],
                                        [op |-> "set", path |-> P_a, value |-> Num(2)]>>,
                             end |-> "return"]
      [] name = "two"    -> [body |-> <<[op |-> "set", path |-> P_ab, value |-> Num(1)],
                                        [op |-> "set", path |-> P_ax, value |-> Num(1)]>>,
                             end |-> "return"]
      [] name = "throws" -> [body |-> <<[op |-> "set", path |-> P_a, value |-> Num(1)]>>,
                             end |-> "throw"]
      [] name = "async"  -> [body |-> <<[op |-> "set", path |-> P_ab, value |-> Num(2)]>>,
                             end |-> "promise"]
      [] name = "toggle" -> [body |-> <<[op |-> "toggle", path |-> P_a]>>,
                             end |-> "return"]
      [] name = "one"    -> [body |-> <<[op |-> "set", path |-> P_a, value |-> Num(2)]>>,
                             end |-> "return"]

FnResult == Num(7)

NoError == "none"

\* a thrown object that refers to itself; the other exceptions are Error objects
Cyclic == "cyclic"

\* log.e(message, error) returns: JSON.stringify(error) does not throw
Serializable(exc) == exc # Cyclic

\* what the middleware loop leaves when its catch clause threw
Thrown == [t |-> "thrown"]

---------------------------------------------------------------------------
(* The StateManager.  Every method is an operator from the object's fields *)
(* (a record sm) to the fields after the call.  Beside the fields the      *)
(* record carries what a call leaves to its caller: exc (the exception in  *)
(* flight), ret (the value returned), and the observations log, frames     *)
(* (the callback invocations on the call stack) and diverged (an           *)
(* invocation met itself on the stack with the store unchanged: the        *)
(* recursion never returns).                                               *)

RECURSIVE setState(_, _, _)
RECURSIVE executeBatch(_, _)
RECURSIVE RunCallback(_, _, _)
RECURSIVE RunBody(_, _)
RECURSIVE endBatch(_)
RECURSIVE processBatchedUpdates(_)
RECURSIVE setStateImmediate(_, _, _)
RECURSIVE notifySubscribers(_, _)
RECURSIVE notifyExternalSubscribers(_, _, _, _)
RECURSIVE triggerPathSubscribers(_, _)
RECURSIVE TriggerEach(_, _, _)
RECURSIVE TriggerPaths(_, _)
RECURSIVE NotifyEach(_, _, _, _, _, _)
RECURSIVE NotifyEntries(_, _, _, _, _)
RECURSIVE FlushPaths(_, _)
RECURSIVE FlushExternal(_, _, _)

\* the code that follows is not reached: the call never returns, or an
\* exception is in flight
Stopped(sm) == sm.diverged \/ sm.exc # NoError

\* currentTracking?.add(path): a dependency set is scopes[currentTracking]
TrackingAdd(sm, path) ==
    IF sm.currentTracking = 0 THEN sm
    ELSE [sm EXCEPT !.scopes[sm.currentTracking] = SetAdd(@, path)]

\* getState(path, defaultValue, track): the fields after the call
getStateEffect(sm, path, track) ==
    IF ~isValidPath(path) THEN sm
    ELSE IF track THEN TrackingAdd(sm, path)
    ELSE sm

\* getState(path, defaultValue, track): the value returned
getState(sm, path, defaultValue) == ReadTree(sm.state, path, defaultValue)

\* subscribeInternal(path, callback)
subscribeInternal(sm, path, callback) ==
    [sm EXCEPT !.subscribers = MapSet(@, path, SetAdd(MapGet(@, path), callback))]

\* the function subscribeInternal returns
unsubscribeInternal(sm, path, callback) ==
    IF ~MapHas(sm.subscribers, path) THEN sm
    ELSE LET subs == SetDelete(MapGet(sm.subscribers, path), callback)
         IN [sm EXCEPT !.subscribers = IF Len(subs) = 0 THEN MapDelete(@, path)
                                        ELSE MapSet(@, path, subs)]

\* subscribe(path, callback, hierarchical): the subscription is a new object
subscribe(sm, path, callback, hierarchical) ==
    LET subscription == [id |-> sm.nextSub, callback |-> callback, hierarchical |-> hierarchical]
    IN [sm EXCEPT !.externalSubscribers = MapSet(@, path, SetAdd(MapGet(@, path), subscription)),
                  !.nextSub = @ + 1]

\* the function subscribe returns
unsubscribeExternal(sm, path, id) ==
    IF ~MapHas(sm.externalSubscribers, path) THEN sm
    ELSE LET subs == SelectSeq(MapGet(sm.externalSubscribers, path), LAMBDA x : x.id # id)
         IN [sm EXCEPT !.externalSubscribers = IF Len(subs) = 0 THEN MapDelete(@, path)
                                                ELSE MapSet(@, path, subs)]

\* #hasCircularUpdate(path)
hasCircularUpdate(sm, path) == path \in sm.currentlyUpdating

\* a queue that keeps the earlier writes to the path
queueBatchedUpdateAppending(sm, path, value) ==
    [sm EXCEPT !.batchQueue = Append(@, [path |-> path, value |-> value]),
               !.batchedPaths = @ \cup {path}]

\* a queue that writes through to the tree
queueBatchedUpdateWriting(sm, path, value) == setStateImmediate(sm, path, value)

\* #queueBatchedUpdate(path, value, context)
queueBatchedUpdate(sm, path, value) ==
    [sm EXCEPT !.batchQueue = Append(SelectSeq(@, LAMBDA u : u.path # path),
                                     [path |-> path, value |-> value]),
               !.batchedPaths = @ \cup {path}]

\* one middleware function applied to newValue; "undefined" is no result
MiddlewareResult(name, path, oldValue, newValue) ==
    CASE name = "clamp" -> IF newValue.t = "number" /\ newValue.n > 1 THEN Num(1) ELSE Undefined
      [] name = "bump" -> IF newValue.t = "number" THEN Num(newValue.n + 1) ELSE Undefined
      [] name = "throws" -> Undefined
      [] name = "throwsNull" -> Undefined
      [] OTHER -> Undefined

RECURSIVE runMiddleware(_, _, _, _)
\* the middleware loop of a write: an exception is caught and logged with
\* error.message, which throws a TypeError when the middleware threw null
runMiddleware(mws, path, oldValue, finalValue) ==
    IF mws = << >> THEN finalValue
    ELSE IF Head(mws) = "throwsNull" THEN Thrown
    ELSE LET result == MiddlewareResult(Head(mws), path, oldValue, finalValue)
         IN runMiddleware(Tail(mws), path, oldValue,
                          IF Head(mws) # "throws" /\ result # Undefined THEN result ELSE finalValue)

\* what a callback invocation leaves in the log
CallbackEvent(sm, callback, ctx) ==
    [ev |-> "callback", reg |-> ctx.reg, path |-> ctx.path, callback |-> callback,
     id |-> ctx.id, args |-> ctx.args, tree |-> sm.state, depth |-> Cardinality(sm.frames)]

\* the part of the store an invocation's course depends on
Frame(sm, callback) ==
    [callback |-> callback, state |-> sm.state, subscribers |-> sm.subscribers,
     externalSubscribers |-> sm.externalSubscribers, isBatching |-> sm.isBatching,
     batchQueue |-> sm.batchQueue, isUpdating |-> sm.isUpdating,
     currentlyUpdating |-> sm.currentlyUpdating]

\* the value a toggle statement writes
Toggled(v) == IF v = Num(1) THEN Num(2) ELSE Num(1)

\* a statement of a callback or batch function:
\*   set     setState(path, value)
\*   toggle  setState(path, getState(path) === 1 ? 2 : 1)
RunStatement(sm, stmt) ==
    setState(IF stmt.op = "set" THEN sm ELSE getStateEffect(sm, stmt.path, TRUE),
             stmt.path,
             IF stmt.op = "set" THEN stmt.value ELSE Toggled(getState(sm, stmt.path, Null)))

RunBody(sm, body) ==
    IF body = << >> \/ sm.diverged \/ sm.exc # NoError THEN sm
    ELSE RunBody(RunStatement(sm, Head(body)), Tail(body))

\* how the function handed to executeBatch ends, its statements being run
FnEnd(s1, fn) ==
    IF s1.diverged \/ s1.exc # NoError THEN s1
    ELSE IF Fn(fn).end = "throw" THEN [s1 EXCEPT !.exc = "FnError"]
    ELSE IF Fn(fn).end = "promise" THEN [s1 EXCEPT !.ret = [t |-> "promise", closes |-> FALSE]]
    ELSE [s1 EXCEPT !.ret = FnResult]

\* callback(): the function handed to executeBatch
RunFn(sm, fn) == FnEnd(RunBody(sm, Fn(fn).body), fn)

\* the factory registered for C runs: it reads 'a.b'
componentFactory(sm) == getStateEffect(sm, P_ab, TRUE)

\* the same as renderComponent, but with the tracking scope left as it is
renderComponentTracked(sm) == componentFactory(sm)

\* DOMRenderer.render({C: {}}) for a registered C: the factory runs with
\* currentTracking null, and parentTracking is put back
renderComponent(sm) ==
    [componentFactory([sm EXCEPT !.currentTracking = 0])
        EXCEPT !.currentTracking = sm.currentTracking]

\* the body of a subscriber callback
Program(sm, callback) ==
    CASE callback = "obs" -> sm
      [] callback = "r1" ->
            LET s1 == getStateEffect(sm, P_ax, TRUE)
            IN IF getState(s1, P_ax, Null) = Num(1) THEN getStateEffect(s1, P_ab, TRUE) ELSE s1
      [] callback = "w1" -> RunBody(sm, <<[op |-> "toggle", path |-> P_a]>>)
      [] callback = "bw" -> executeBatch(sm, "toggle")
      [] callback = "boom" -> [getStateEffect(sm, P_ax, TRUE) EXCEPT !.exc = "CallbackError"]
      [] callback = "boomc" -> [getStateEffect(sm, P_ax, TRUE) EXCEPT !.exc = Cyclic]
      [] callback = "wx" -> RunBody(sm, <<[op |-> "set", path |-> P_ax, value |-> Num(1)]>>)
      [] callback = "rc" ->
            getStateEffect(renderComponent(getStateEffect(sm, P_ax, TRUE)), P_a, TRUE)

\* the invocation returns: it leaves the call stack
Return(s2, frames) == [s2 EXCEPT !.frames = frames]

\* one invocation of a subscriber callback
RunCallback(sm, callback, ctx) ==
    IF sm.diverged THEN sm
    ELSE IF Frame(sm, callback) \in sm.frames THEN [sm EXCEPT !.diverged = TRUE]
    ELSE Return(Program([sm EXCEPT !.frames = @ \cup {Frame(sm, callback)},
                                   !.log = Append(@, CallbackEvent(sm, callback, ctx))],
                        callback),
                sm.frames)

RECURSIVE SubscribeNew(_, _, _)
\* newTracking.forEach(newPath => ...) of #triggerPathSubscribers
SubscribeNew(sm, newPaths, callback) ==
    IF newPaths = << >> THEN sm
    ELSE LET newPath == Head(newPaths)
             existingSubs == MapGet(sm.subscribers, newPath)
             s1 == IF ~MapHas(sm.subscribers, newPath) \/ ~SetHas(existingSubs, callback)
                   THEN subscribeInternal(sm, newPath, callback)
                   ELSE sm
         IN SubscribeNew(s1, Tail(newPaths), callback)

\* what a tracked run leaves in the log: the paths it read
RanEvent(callback, deps) == [ev |-> "ran", callback |-> callback, deps |-> deps]

\* what follows callback() in the forEach of #triggerPathSubscribers: the
\* old scope is restored and, unless the callback threw, the paths it read
\* are subscribed; the catch clause logs the error before it restores
AfterCallback(s2, oldTracking, newTracking, callback) ==
    IF s2.diverged THEN s2
    ELSE IF s2.exc # NoError
         THEN IF Serializable(s2.exc)
              THEN [s2 EXCEPT !.exc = NoError, !.currentTracking = oldTracking]
              ELSE [s2 EXCEPT !.exc = "TypeError"]
    ELSE SubscribeNew([s2 EXCEPT !.currentTracking = oldTracking,
                                 !.log = Append(@, RanEvent(callback, s2.scopes[newTracking]))],
                      s2.scopes[newTracking], callback)

\* the body of the forEach of #triggerPathSubscribers, for one callback
TriggerOne(sm, path, callback) ==
    AfterCallback(RunCallback([sm EXCEPT !.scopes = Append(@, << >>),
                                         !.currentTracking = Len(sm.scopes) + 1],
                              callback,
                              [reg |-> "internal", path |-> path, id |-> 0, args |-> << >>]),
                  sm.currentTracking, Len(sm.scopes) + 1, callback)

TriggerEach(sm, path, callbacks) ==
    IF callbacks = << >> \/ Stopped(sm) THEN sm
    ELSE TriggerEach(TriggerOne(sm, path, Head(callbacks)), path, Tail(callbacks))

\* the same as triggerPathSubscribers, but from the last subscriber to the first
triggerPathSubscribersBackwards(sm, path) ==
    IF Stopped(sm) THEN sm
    ELSE LET subs == MapGet(sm.subscribers, path)
         IN IF Len(subs) > 0
            THEN TriggerEach(sm, path, [i \in 1 .. Len(subs) |-> subs[Len(subs) + 1 - i]])
            ELSE sm

\* #triggerPathSubscribers(path): new Set(subs).forEach
triggerPathSubscribers(sm, path) ==
    IF Stopped(sm) THEN sm
    ELSE LET subs == MapGet(sm.subscribers, path)
         IN IF Len(subs) > 0 THEN TriggerEach(sm, path, subs) ELSE sm

TriggerPaths(sm, paths) ==
    IF paths = << >> \/ Stopped(sm) THEN sm
    ELSE TriggerPaths(triggerPathSubscribers(sm, Head(paths)), Tail(paths))

\* parts.slice(0, i).join('.') for i = parts.length - 1 down to 1
AncestorPaths(path) ==
    LET parts == getPathParts(path)
    IN [k \in 1..(Len(parts) - 1) |-> Join(SubSeq(parts, 1, Len(parts) - k))]

\* the registered paths that start with path + '.'
DescendantPaths(sm, path) ==
    LET prefix == IF path # << >> THEN path \o <<Dot>> ELSE << >>
        allPaths == Dedup(MapKeys(sm.subscribers) \o MapKeys(sm.externalSubscribers))
    IN SelectSeq(allPaths, LAMBDA subscriberPath :
                     StartsWith(subscriberPath, prefix) /\ subscriberPath # path)

\* the last loop of #notifySubscribers
NotifyDescendants(s2, path) ==
    IF Stopped(s2) THEN s2 ELSE TriggerPaths(s2, DescendantPaths(s2, path))

\* #notifySubscribers(path, newValue, oldValue)
notifySubscribers(sm, path) ==
    NotifyDescendants(TriggerPaths(triggerPathSubscribers(sm, path), AncestorPaths(path)), path)

\* shouldNotify of #notifyExternalSubscribers
shouldNotify(hierarchical, changedPath, subscribedPath) ==
    IF hierarchical
    THEN changedPath = subscribedPath \/ StartsWith(changedPath, subscribedPath \o <<Dot>>)
    ELSE changedPath = subscribedPath

\* catch (error) { log }
Caught(s1) ==
    IF s1.diverged THEN s1
    ELSE IF Serializable(s1.exc) THEN [s1 EXCEPT !.exc = NoError]
    ELSE [s1 EXCEPT !.exc = "TypeError"]

\* an external callback called inside try/catch
CallExternal(sm, subscribedPath, sub, args) ==
    Caught(RunCallback(sm, sub.callback,
                       [reg |-> "external", path |-> subscribedPath, id |-> sub.id, args |-> args]))

\* subscriptions.forEach of #notifyExternalSubscribers
NotifyEach(sm, subscribedPath, subs, changedPath, newValue, oldValue) ==
    IF subs = << >> \/ Stopped(sm) THEN sm
    ELSE NotifyEach(IF shouldNotify(Head(subs).hierarchical, changedPath, subscribedPath)
                    THEN CallExternal(sm, subscribedPath, Head(subs),
                                      <<newValue, oldValue, changedPath>>)
                    ELSE sm,
                    subscribedPath, Tail(subs), changedPath, newValue, oldValue)

\* externalSubscribers.forEach of #notifyExternalSubscribers
NotifyEntries(sm, entries, changedPath, newValue, oldValue) ==
    IF entries = << >> \/ Stopped(sm) THEN sm
    ELSE NotifyEntries(NotifyEach(sm, Head(entries).path, Head(entries).subs,
                                  changedPath, newValue, oldValue),
                       Tail(entries), changedPath, newValue, oldValue)

\* #notifyExternalSubscribers(changedPath, newValue, oldValue)
notifyExternalSubscribers(sm, changedPath, newValue, oldValue) ==
    NotifyEntries(sm, sm.externalSubscribers, changedPath, newValue, oldValue)

\* what a write that changed the tree leaves in the log when it returns:
\* from is the length of the log when the write was called
WriteEvent(before, path, oldValue, finalValue, notifies) ==
    [ev |-> "write", path |-> path, oldValue |-> oldValue, newValue |-> finalValue,
     from |-> Len(before.log), notifies |-> notifies, depth |-> Cardinality(before.frames),
     subscribers |-> before.subscribers, externalSubscribers |-> before.externalSubscribers]

\* the end of the notification block of #setStateImmediate
AfterNotify(s4, before, path, oldValue, finalValue) ==
    IF Stopped(s4) THEN s4
    ELSE [s4 EXCEPT !.currentlyUpdating = @ \ {path},
                    !.isUpdating = FALSE,
                    !.log = Append(@, WriteEvent(before, path, oldValue, finalValue, TRUE))]

\* if (!this.isUpdating) { ... } of #setStateImmediate, the tree being assigned in s1
NotifyBlock(s1, before, path, oldValue, finalValue) ==
    IF s1.isUpdating
    THEN [s1 EXCEPT !.log = Append(@, WriteEvent(before, path, oldValue, finalValue, FALSE))]
    ELSE AfterNotify(
            notifyExternalSubscribers(
                notifySubscribers([s1 EXCEPT !.isUpdating = TRUE,
                                             !.currentlyUpdating = @ \cup {path}],
                                  path),
                path, finalValue, oldValue),
            before, path, oldValue, finalValue)

\* #setStateImmediate from the deepEquals test on
WriteFinal(s0, before, path, oldValue, finalValue) ==
    IF finalValue = Thrown THEN [s0 EXCEPT !.exc = "TypeError"]
    ELSE IF deepEquals(oldValue, finalValue) THEN s0
    ELSE NotifyBlock([s0 EXCEPT !.state = AssignIn(@, getPathParts(path), finalValue)],
                     before, path, oldValue, finalValue)

\* #setStateImmediate(path, value, context)
setStateImmediate(sm, path, value) ==
    WriteFinal(getStateEffect(sm, path, TRUE), sm, path,
               getState(sm, path, Null),
               runMiddleware(sm.middleware, path, getState(sm, path, Null), value))

\* setState(path, value, context)
setState(sm, path, value) ==
    IF sm.diverged THEN sm
    ELSE IF ~isValidPath(path) \/ hasCircularUpdate(sm, path) THEN sm
    ELSE IF sm.isBatching THEN queueBatchedUpdate(sm, path, value)
    ELSE setStateImmediate(sm, path, value)

RECURSIVE ApplyUpdates(_, _)
\* pathGroups.forEach of #processBatchedUpdates; w is [sm, applied]
ApplyUpdates(w, updates) ==
    IF updates = << >> THEN w
    ELSE LET update == Head(updates)
             s0 == getStateEffect(w.sm, update.path, TRUE)
             oldValue == getState(s0, update.path, Null)
             finalValue == runMiddleware(s0.middleware, update.path, oldValue, update.value)
         IN IF finalValue = Thrown
            THEN [sm |-> [s0 EXCEPT !.exc = "TypeError"], applied |-> w.applied]
            ELSE IF deepEquals(oldValue, finalValue)
            THEN ApplyUpdates([sm |-> s0, applied |-> w.applied], Tail(updates))
            ELSE ApplyUpdates(
                    [sm |-> [s0 EXCEPT !.state = AssignIn(@, getPathParts(update.path), finalValue)],
                     applied |-> Append(w.applied, [path |-> update.path, oldValue |-> oldValue,
                                                    newValue |-> finalValue])],
                    Tail(updates))

RECURSIVE ParentPaths(_)
\* parentPaths of #processBatchedUpdates: every prefix of every applied path
ParentPaths(applied) ==
    IF applied = << >> THEN << >>
    ELSE LET parts == getPathParts(applied[Len(applied)].path)
             front == ParentPaths(SubSeq(applied, 1, Len(applied) - 1))
         IN Dedup(front \o [i \in 1..Len(parts) |-> Join(SubSeq(parts, 1, i))])

\* externalSubscribers.get(path).forEach of #processBatchedUpdates
FlushExternal(sm, path, subs) ==
    IF subs = << >> \/ Stopped(sm) THEN sm
    ELSE LET s0 == getStateEffect(sm, path, TRUE)
             s1 == CallExternal(s0, path, Head(subs), <<getState(s0, path, Null), Null, path>>)
         IN FlushExternal(s1, path, Tail(subs))

\* the body of parentPaths.forEach of #processBatchedUpdates
FlushPath(sm, path) ==
    LET s1 == IF MapHas(sm.subscribers, path) THEN triggerPathSubscribers(sm, path) ELSE sm
    IN IF Stopped(s1) THEN s1
       ELSE IF MapHas(s1.externalSubscribers, path)
            THEN FlushExternal(s1, path, MapGet(s1.externalSubscribers, path))
       ELSE s1

FlushPaths(sm, paths) ==
    IF paths = << >> \/ Stopped(sm) THEN sm
    ELSE FlushPaths(FlushPath(sm, Head(paths)), Tail(paths))

\* what a flush leaves in the log before it notifies
FlushEvent(sm, before, updates, applied) ==
    [ev |-> "flush", updates |-> updates, applied |-> applied, tree |-> sm.state,
     before |-> before, depth |-> Cardinality(sm.frames),
     subscribers |-> sm.subscribers, externalSubscribers |-> sm.externalSubscribers]

\* the flush is over
Flushed(s3, from) ==
    IF Stopped(s3) THEN s3
    ELSE [s3 EXCEPT !.log = Append(@, [ev |-> "flushed", from |-> from])]

\* #processBatchedUpdates() from this.isUpdating = wasUpdating on; w is
\* [sm, applied] as pathGroups.forEach left them
NotifyApplied(w, before, updates, wasUpdating) ==
    IF w.sm.exc # NoError THEN w.sm
    ELSE Flushed(FlushPaths([w.sm EXCEPT !.isUpdating = wasUpdating,
                                         !.log = Append(@, FlushEvent(w.sm, before, updates,
                                                                      w.applied))],
                            ParentPaths(w.applied)),
                 Len(w.sm.log) + 1)

\* #processBatchedUpdates()
processBatchedUpdates(sm) ==
    NotifyApplied(ApplyUpdates([sm |-> [sm EXCEPT !.batchQueue = << >>, !.batchedPaths = {},
                                                  !.isUpdating = TRUE],
                                applied |-> << >>],
                               sm.batchQueue),
                  sm.state, sm.batchQueue, sm.isUpdating)

\* #beginBatch()
beginBatch(sm) == [sm EXCEPT !.isBatching = TRUE, !.batchQueue = << >>, !.batchedPaths = {}]

\* #endBatch()
endBatch(sm) ==
    IF ~sm.isBatching THEN sm
    ELSE IF Len(sm.batchQueue) = 0 THEN [sm EXCEPT !.isBatching = FALSE]
    ELSE processBatchedUpdates([sm EXCEPT !.isBatching = FALSE])

\* executeBatch returns result or throws error, the batch being ended in s2;
\* an exception #endBatch threw goes to the caller
BatchExit(s2, exc, ret) ==
    IF Stopped(s2) THEN s2 ELSE [s2 EXCEPT !.exc = exc, !.ret = ret]

\* an executeBatch that leaves the batch open when callback throws
AfterFnLeavingOpen(s1) ==
    IF s1.diverged THEN s1
    ELSE IF s1.exc # NoError
         THEN BatchExit([s1 EXCEPT !.exc = NoError], s1.exc, Undefined)
    ELSE IF s1.ret.t = "promise"
         THEN [s1 EXCEPT !.ret = [t |-> "promise", closes |-> TRUE]]
    ELSE BatchExit(endBatch(s1), NoError, s1.ret)

\* executeBatch(callback) from the call of callback on; s1 is the store as
\* callback() left it
AfterFn(s1) ==
    IF s1.diverged THEN s1
    ELSE IF s1.exc # NoError
         THEN BatchExit(endBatch([s1 EXCEPT !.exc = NoError]), s1.exc, Undefined)
    ELSE IF s1.ret.t = "promise"
         THEN [s1 EXCEPT !.ret = [t |-> "promise", closes |-> TRUE]]
    ELSE BatchExit(endBatch(s1), NoError, s1.ret)

\* an executeBatch that opens and closes a batch of its own whenever called
executeBatchAlways(sm, fn) ==
    IF sm.diverged THEN sm
    ELSE AfterFn(RunFn(beginBatch(sm), fn))

\* executeBatch(callback)
executeBatch(sm, fn) ==
    IF sm.diverged THEN sm
    ELSE IF sm.isBatching THEN RunFn(sm, fn)
    ELSE AfterFn(RunFn(beginBatch(sm), fn))

\* the .then and .catch handlers executeBatch attaches to the callback's promise
settleBatchPromise(sm, promise) == IF promise.closes THEN endBatch(sm) ELSE sm

\* startTracking()
startTracking(sm) ==
    [sm EXCEPT !.scopes = Append(@, << >>), !.currentTracking = Len(sm.scopes) + 1]

\* endTracking()
endTracking(sm) == [sm EXCEPT !.currentTracking = 0]

---------------------------------------------------------------------------
(* DOMRenderer._createReactiveUpdate *)

RECURSIVE SubscribeDependencies(_, _, _)
\* the for loop over dependencyArray; w is [sm, subscriptions]
SubscribeDependencies(w, dependencyArray, updateFn) ==
    IF dependencyArray = << >> THEN w
    ELSE SubscribeDependencies(
            [sm |-> subscribeInternal(w.sm, Head(dependencyArray), updateFn),
             subscriptions |-> Append(w.subscriptions,
                                      [reg |-> "internal", path |-> Head(dependencyArray),
                                       callback |-> updateFn, id |-> 0])],
            Tail(dependencyArray), updateFn)

\* _createReactiveUpdate from the finally clause on; s3 is the store as
\* updateFn(element) left it
AfterUpdateFn(s3, dependencies, originalTracking, updateFn) ==
    IF ~Serializable(s3.exc)
    THEN [sm |-> [s3 EXCEPT !.exc = "TypeError", !.currentTracking = originalTracking],
          subscriptions |-> << >>]
    ELSE SubscribeDependencies(
            [sm |-> [s3 EXCEPT !.exc = NoError,
                               !.currentTracking = originalTracking,
                               !.log = Append(@, RanEvent(updateFn, s3.scopes[dependencies]))],
             subscriptions |-> << >>],
            s3.scopes[dependencies], updateFn)

\* _createReactiveUpdate(element, updateFn, subscriptions): [sm, subscriptions].
\* originalTracking is read after startTracking() has replaced currentTracking
createReactiveUpdate(sm, updateFn) ==
    AfterUpdateFn(RunCallback(startTracking(sm), updateFn,
                              [reg |-> "create", path |-> << >>, id |-> 0, args |-> << >>]),
                  startTracking(sm).currentTracking,
                  startTracking(sm).currentTracking,
                  updateFn)

---------------------------------------------------------------------------
(* The inputs of the calls *)

Paths == {P_a, P_ab, P_ax}
BadPaths == {P_dots, P_blank}
Values == {Num(1), Num(2), Undefined, Obj(<<"b">> :> Num(1))}
InternalCallbacks == {"obs", "w1", "bw"}
ExternalCallbacks == {"obs", "w1"}
UpdateFns == {"r1"}
BatchFns == {"twice", "two", "throws", "async"}

---------------------------------------------------------------------------
(* The state machine *)

\* the StateManager's fields as a record
Store ==
    [state |-> state, middleware |-> middleware, subscribers |-> subscribers,
     externalSubscribers |-> externalSubscribers,
     scopes |-> currentTracking, currentTracking |-> Len(currentTracking),
     isUpdating |-> isUpdating, currentlyUpdating |-> currentlyUpdating,
     isBatching |-> isBatching, batchQueue |-> batchQueue, batchedPaths |-> batchedPaths,
     nextSub |-> nextSub,
     exc |-> NoError, ret |-> Undefined, log |-> << >>, frames |-> {}, diverged |-> FALSE]

\* what the store was when the last call was made
Pre ==
    [state |-> state, subscribers |-> subscribers, externalSubscribers |-> externalSubscribers,
     isBatching |-> isBatching, batchQueue |-> batchQueue, currentTracking |-> currentTracking]

\* the call itself (not a callback of it) assigned the tree and notified
Wrote(events) ==
    \E i \in 1..Len(events) : events[i].ev = "write" /\ events[i].depth = 0

\* the paths callback read on its latest tracked run, were being the paths
\* known before the call; <<FALSE>> stands for a callback that never ran
LatestRead(events, callback, were) ==
    LET runs == {i \in 1..Len(events) : events[i].ev = "ran" /\ events[i].callback = callback}
    IN IF runs = {} THEN were
       ELSE [ran |-> TRUE, deps |-> events[CHOOSE i \in runs : \A j \in runs : j <= i].deps]

Outcome(r) ==
    IF r.diverged THEN "diverged"
    ELSE IF r.exc # NoError THEN "threw"
    ELSE "returned"

\* the fields after a call that ended with the store r; a call that never
\* returns leaves no later state, and the model stops there
Commit(r, call) ==
    /\ steps' = steps + 1
    /\ last' = [op |-> call.op, path |-> call.path, value |-> call.value,
                callback |-> call.callback, fn |-> call.fn, how |-> call.how,
                outcome |-> Outcome(r), ret |-> r.ret, pre |-> Pre,
                prev |-> [op |-> last.op, path |-> last.path, value |-> last.value,
                          wrote |-> Wrote(log)]]
    /\ log' = r.log
    /\ lastRead' = [c \in Callbacks |-> LatestRead(r.log, c, lastRead[c])]
    /\ IF r.diverged
       THEN UNCHANGED <<state, subscribers, externalSubscribers, currentTracking, isUpdating,
                        currentlyUpdating, isBatching, batchQueue, batchedPaths, nextSub>>
       ELSE /\ state' = r.state
            /\ subscribers' = r.subscribers
            /\ externalSubscribers' = r.externalSubscribers
            /\ currentTracking' = IF r.currentTracking = 0 THEN << >>
                                  ELSE <<r.scopes[r.currentTracking]>>
            /\ isUpdating' = r.isUpdating
            /\ currentlyUpdating' = r.currentlyUpdating
            /\ isBatching' = r.isBatching
            /\ batchQueue' = r.batchQueue
            /\ batchedPaths' = r.batchedPaths
            /\ nextSub' = r.nextSub
    /\ UNCHANGED <<middleware, written>>
    /\ UNCHANGED rendererVars

Call(op) ==
    [op |-> op, path |-> << >>, value |-> Undefined, callback |-> "", fn |-> "", how |-> ""]

Running == steps < MaxSteps /\ last.outcome # "diverged"

NoCall == [op |-> "new", path |-> << >>, value |-> Undefined, callback |-> "", fn |-> "",
           how |-> "", outcome |-> "returned", ret |-> Undefined,
           prev |-> [op |-> "new", path |-> << >>, value |-> Undefined, wrote |-> FALSE],
           pre |-> [state |-> EmptyMap, subscribers |-> << >>, externalSubscribers |-> << >>,
                    isBatching |-> FALSE, batchQueue |-> << >>, currentTracking |-> << >>]]

\* the keys of the child descriptors
ChildKeys == 1 .. 4

\* the renderer before it rendered anything: empty elementCache and recyclePool
NoElement ==
    [mode |-> "none", kids |-> << >>, jurisKey |-> << >>, elementCache |-> [k \in ChildKeys |-> 0],
     recyclePool |-> << >>, nextNode |-> 1,
     lastChildrenState |-> Null, childElements |-> << >>,
     lastChildrenResult |-> Null, isInitialized |-> FALSE,
     op |-> "none", result |-> Null, pre |-> << >>, preState |-> Null,
     created |-> {}, cleaned |-> {}, runs |-> 0, shown |-> << >>,
     pending |-> {}, settled |-> Null]

\* new ComponentManager(juris), new DOMRenderer(juris) and the container
\* element of the page, which is element 1
NoComponents ==
    [components |-> [shape |-> "none"], componentStack |-> << >>, componentCounters |-> 0,
     contexts |-> << >>, instances |-> {}, componentStates |-> {}, namedComponents |-> 0,
     asyncPropsCache |-> "none", tasks |-> {},
     els |-> <<[kind |-> "container", parent |-> 0, props |-> "none", inst |-> 0,
                selfRef |-> FALSE, unmounted |-> 0]>>,
     fresh |-> FALSE, op |-> "none", task |-> [kind |-> "none"], real |-> 0,
     attached |-> FALSE, torn |-> {}, deleted |-> {}, steps |-> 0,
     timers |-> << >>, mounted |-> << >>, removed |-> {}]

\* the page before any render, and createPromisify()
NoPage == [nodes |-> << >>, isTracking |-> FALSE, activePromises |-> {}, mode |-> "none",
           renders |-> 0]

\* new StateManager(): constructor defaults
Init ==
    /\ state = EmptyMap
    /\ middleware = << >>
    /\ subscribers = << >>
    /\ externalSubscribers = << >>
    /\ currentTracking = << >>
    /\ isUpdating = FALSE
    /\ currentlyUpdating = {}
    /\ isBatching = FALSE
    /\ batchQueue = << >>
    /\ batchedPaths = {}
    /\ promises = << >>
    /\ lastRead = [c \in Callbacks |-> [ran |-> FALSE, deps |-> << >>]]
    /\ unsubs = {}
    /\ nextSub = 1
    /\ last = NoCall
    /\ log = << >>
    /\ steps = 0
    /\ written = {}
    /\ dom = NoElement
    /\ cm = NoComponents
    /\ page = NoPage

SetState ==
    \E path \in Paths \cup BadPaths, value \in Values :
        /\ Running
        /\ Commit(setState(Store, path, value),
                  [Call("setState") EXCEPT !.path = path, !.value = value])
        /\ UNCHANGED <<promises, unsubs>>

SubscribeInternal ==
    \E path \in Paths, callback \in InternalCallbacks :
        /\ Running
        /\ Commit(subscribeInternal(Store, path, callback),
                  [Call("subscribeInternal") EXCEPT !.path = path, !.callback = callback])
        /\ unsubs' = unsubs \cup {[reg |-> "internal", path |-> path, callback |-> callback, id |-> 0]}
        /\ UNCHANGED promises

Subscribe ==
    \E path \in Paths, callback \in ExternalCallbacks :
        /\ Running
        /\ Commit(subscribe(Store, path, callback, TRUE),
                  [Call("subscribe") EXCEPT !.path = path, !.callback = callback])
        /\ unsubs' = unsubs \cup {[reg |-> "external", path |-> path, callback |-> callback, id |-> nextSub]}
        /\ UNCHANGED promises

\* subscribeExact(path, callback) is subscribe(path, callback, false)
SubscribeExact ==
    \E path \in Paths, callback \in ExternalCallbacks :
        /\ Running
        /\ Commit(subscribe(Store, path, callback, FALSE),
                  [Call("subscribeExact") EXCEPT !.path = path, !.callback = callback])
        /\ unsubs' = unsubs \cup {[reg |-> "external", path |-> path, callback |-> callback, id |-> nextSub]}
        /\ UNCHANGED promises

\* a caller calls the function subscribe or subscribeInternal returned
Unsubscribe ==
    \E u \in unsubs :
        /\ Running
        /\ Commit(IF u.reg = "internal" THEN unsubscribeInternal(Store, u.path, u.callback)
                  ELSE unsubscribeExternal(Store, u.path, u.id),
                  [Call("unsubscribe") EXCEPT !.path = u.path, !.callback = u.callback])
        /\ unsubs' = unsubs \ {u}
        /\ UNCHANGED promises

\* the renderer keeps the unsubscribe functions of a binding
CommitBinding(w, updateFn) ==
    /\ Commit(w.sm, [Call("createReactiveUpdate") EXCEPT !.callback = updateFn])
    /\ unsubs' = unsubs \cup {w.subscriptions[i] : i \in 1..Len(w.subscriptions)}

CreateReactiveUpdate ==
    \E updateFn \in UpdateFns :
        /\ Running
        /\ CommitBinding(createReactiveUpdate(Store, updateFn), updateFn)
        /\ UNCHANGED promises

\* a promise executeBatch returned is pending
CommitBatch(r, fn) ==
    /\ Commit(r, [Call("executeBatch") EXCEPT !.fn = fn])
    /\ promises' = IF ~r.diverged /\ r.exc = NoError /\ r.ret.t = "promise"
                   THEN Append(promises, r.ret) ELSE promises

ExecuteBatch ==
    \E fn \in BatchFns :
        /\ Running
        /\ CommitBatch(executeBatch(Store, fn), fn)
        /\ UNCHANGED unsubs

\* the promise an executeBatch callback returned resolves or rejects
Settle ==
    \E i \in 1..Len(promises), how \in {"resolve", "reject"} :
        /\ Running
        /\ Commit(BatchExit(settleBatchPromise(Store, promises[i]),
                            IF how = "reject" THEN "FnError" ELSE NoError,
                            IF how = "resolve" THEN FnResult ELSE Undefined),
                  [Call("settle") EXCEPT !.fn = IF promises[i].closes THEN "opener" ELSE "nested",
                                        !.how = how])
        /\ promises' = [j \in 1..(Len(promises) - 1) |-> IF j < i THEN promises[j] ELSE promises[j + 1]]
        /\ UNCHANGED unsubs

Next ==
    \/ SetState
    \/ SubscribeInternal
    \/ Subscribe
    \/ SubscribeExact
    \/ Unsubscribe
    \/ CreateReactiveUpdate
    \/ ExecuteBatch
    \/ Settle

Spec == Init /\ [][Next]_vars

---------------------------------------------------------------------------
(* SpecTree: reads and writes of the state tree of a store nobody has      *)
(* subscribed to, over paths that miss levels, cross values that are not   *)
(* objects, are invalid, or name an inherited property                     *)

P_a_constructor == <<"a", Dot>> \o ConstructorKey

TreePaths == {P_a, P_ab, P_ax, ConstructorKey, P_a_constructor, P_dots, P_blank}
TreeValues == {Num(1), Null, Undefined, Obj(<<"b">> :> Num(1))}
TreeDefaults == {Null, Num(0)}

\* setState(path, value) called by application code
TreeSetState ==
    \E path \in TreePaths, value \in TreeValues :
        /\ steps < MaxTreeSteps
        /\ steps' = steps + 1
        /\ state' = setState(Store, path, value).state
        /\ written' = written \cup {path}
        /\ last' = [NoCall EXCEPT !.op = "setState", !.path = path, !.value = value, !.pre = Pre]
        /\ UNCHANGED <<middleware, subscribers, externalSubscribers, currentTracking, isUpdating,
                       currentlyUpdating, isBatching, batchQueue, batchedPaths, promises,
                       lastRead, unsubs, nextSub, log>>
        /\ UNCHANGED rendererVars

\* getState(path, defaultValue) called by application code
TreeGetState ==
    \E path \in TreePaths, defaultValue \in TreeDefaults :
        /\ steps < MaxTreeSteps
        /\ steps' = steps + 1
        /\ last' = [NoCall EXCEPT !.op = "getState", !.path = path, !.value = defaultValue,
                                  !.ret = getState(getStateEffect(Store, path, TRUE), path, defaultValue),
                                  !.pre = Pre]
        /\ UNCHANGED <<state, written, middleware, subscribers, externalSubscribers,
                       currentTracking, isUpdating, currentlyUpdating, isBatching, batchQueue,
                       batchedPaths, promises, lastRead, unsubs, nextSub, log>>
        /\ UNCHANGED rendererVars

NextTree == TreeSetState \/ TreeGetState

SpecTree == Init /\ [][NextTree]_vars

---------------------------------------------------------------------------
(* DOMRenderer: one element whose children property is a function.  A child *)
(* descriptor is {li: {key: k}} and is modelled by its key k; a DOM node is *)
(* an identity (a positive integer).  The result of the children function   *)
(* is the string "ignore" or an array of child descriptors.                 *)

MaxList == 3
MaxRuns == 3
RECYCLE_POOL_SIZE == 100

Ignore == [t |-> "ignore"]

\* what the children function may return: "ignore", or an array of at most
\* MaxList children with distinct keys
ChildResults ==
    {Ignore} \cup
    {[t |-> "list", keys |-> ks] :
        ks \in {q \in UNION {[1 .. n -> ChildKeys] : n \in 0 .. MaxList} :
                    \A i, j \in DOMAIN q : i # j => q[i] # q[j]}}

\* render(vnode) in batch mode for a child with key k: the element cached for
\* the key if there is one, else #createElementOptimized, which takes an element
\* of the recycle pool or creates one, sets its _jurisKey and caches it
renderOptimized(d, els, k) ==
    IF d.elementCache[k] # 0
    THEN [d |-> d, els |-> Append(els, d.elementCache[k])]
    ELSE IF d.recyclePool # << >>
    THEN [d |-> [d EXCEPT !.recyclePool = SubSeq(@, 1, Len(@) - 1),
                          !.elementCache[k] = d.recyclePool[Len(d.recyclePool)],
                          !.jurisKey[d.recyclePool[Len(d.recyclePool)]] = k],
          els |-> Append(els, d.recyclePool[Len(d.recyclePool)])]
    ELSE [d |-> [d EXCEPT !.nextNode = @ + 1,
                          !.elementCache[k] = d.nextNode,
                          !.jurisKey = Append(@, k),
                          !.created = @ \cup {d.nextNode}],
          els |-> Append(els, d.nextNode)]

\* the halves of an array: a loop over an array is run over its first half
\* and then over its second half, down to single elements
FirstHalf(seq) == SubSeq(seq, 1, Len(seq) \div 2)
SecondHalf(seq) == SubSeq(seq, Len(seq) \div 2 + 1, Len(seq))

\* TRUE; it makes TLC evaluate what the first half of a loop left before it
\* runs the second half, so that the evaluation nests no deeper than the
\* halving does
Evaluated(x) == x = x

\* #recycleElement for the old children no new child took, in the order of
\* oldChildrenByKey: removed from the parent and, while the pool has room,
\* cleaned up (which forgets the cached element of its key), reset and pooled
RECURSIVE recycleElements(_, _)
recycleElements(d, unused) ==
    IF Evaluated(d) /\ unused = << >> THEN d
    ELSE IF Len(unused) = 1
    THEN IF Len(d.recyclePool) < RECYCLE_POOL_SIZE
         THEN [d EXCEPT !.elementCache[d.jurisKey[unused[1]]] = 0,
                        !.cleaned = @ \cup {unused[1]},
                        !.recyclePool = Append(@, unused[1])]
         ELSE d
    ELSE recycleElements(recycleElements(d, FirstHalf(unused)), SecondHalf(unused))

\* the loop of #reconcileChildren over the new children, w being [d, els]: a
\* new child takes the old child of its key (same tag, so #canReuseElement
\* holds), else render's
RECURSIVE reconcileEach(_, _, _)
reconcileEach(w, oldChildren, keys) ==
    IF Evaluated(w) /\ keys = << >> THEN w
    ELSE IF Len(keys) = 1
    THEN IF \E i \in DOMAIN oldChildren :
                /\ w.d.jurisKey[oldChildren[i]] = keys[1]
                /\ \A j \in DOMAIN w.els : w.els[j] # oldChildren[i]
         THEN [d |-> w.d,
               els |-> Append(w.els, oldChildren[CHOOSE i \in DOMAIN oldChildren :
                                                    w.d.jurisKey[oldChildren[i]] = keys[1]])]
         ELSE renderOptimized(w.d, w.els, keys[1])
    ELSE reconcileEach(reconcileEach(w, oldChildren, FirstHalf(keys)), oldChildren,
                       SecondHalf(keys))

\* oldChildrenByKey.forEach of #reconcileChildren, r being [d, els] as the
\* loop over the new children left them
RecycleUnused(r, oldChildren) ==
    [d |-> recycleElements(r.d, SelectSeq(oldChildren,
                                          LAMBDA n : \A i \in DOMAIN r.els : r.els[i] # n)),
     els |-> r.els]

\* #reconcileChildren up to the recycling of the old children no new child took
reconcileLoop(d, oldChildren, els, keys) ==
    RecycleUnused(reconcileEach([d |-> d, els |-> els], oldChildren, keys), oldChildren)

\* the children of a fragment the elements of els were appended to in turn:
\* appendChild moves a node that is a child already, so a node stands where
\* it was appended last
Appended(els) ==
    IF \A i, j \in DOMAIN els : els[i] = els[j] => i = j THEN els
    ELSE [k \in 1 .. Cardinality({els[i] : i \in DOMAIN els}) |->
             els[CHOOSE i \in DOMAIN els :
                     /\ \A j \in DOMAIN els : j > i => els[j] # els[i]
                     /\ Cardinality({els[j] : j \in i .. Len(els)}) =
                            Cardinality({els[j] : j \in DOMAIN els}) - k + 1]]

\* the end of #reconcileChildren: the parent's children become the reconciled
\* elements, which the caller keeps with the result they render
Reconciled(r, newChildren) ==
    [r.d EXCEPT !.kids = Appended(r.els), !.childElements = r.els,
                !.lastChildrenState = newChildren]

\* the same as reconcileChildren, but against no old children
reconcileChildrenAnew(d, oldChildren, newChildren) ==
    Reconciled(reconcileLoop(d, << >>, << >>,
                             IF newChildren.t = "list" THEN newChildren.keys ELSE << >>),
               newChildren)

\* #reconcileChildren(parent, oldChildren, newChildren); a string is not a
\* child object and renders nothing
reconcileChildren(d, oldChildren, newChildren) ==
    Reconciled(reconcileLoop(d, oldChildren, << >>,
                             IF newChildren.t = "list" THEN newChildren.keys ELSE << >>),
               newChildren)

\* the same as updateChildrenOptimized, but without the test for "ignore"
updateChildrenOptimizedAlways(d, newChildren) ==
    IF d.lastChildrenState # newChildren
    THEN Reconciled(reconcileLoop(d, d.childElements, << >>,
                                  IF newChildren.t = "list" THEN newChildren.keys ELSE << >>),
                    newChildren)
    ELSE d

\* updateChildren of _handleChildrenOptimized, given what the children
\* function returned; #childrenEqual holds of two results when they are
\* arrays of the same children in the same order
updateChildrenOptimized(d, newChildren) ==
    IF newChildren # Ignore /\ d.lastChildrenState # newChildren
    THEN reconcileChildren(d, d.childElements, newChildren)
    ELSE d

\* #renderStaticChildren with elements of #createElementFineGrained
RECURSIVE renderStaticChildren(_, _)
renderStaticChildren(d, keys) ==
    IF keys = << >> THEN d
    ELSE renderStaticChildren([d EXCEPT !.kids = Append(@, d.nextNode),
                                        !.nextNode = @ + 1,
                                        !.jurisKey = Append(@, Head(keys)),
                                        !.created = @ \cup {d.nextNode}],
                              Tail(keys))

\* updateChildren of #handleReactiveChildren, given what the children function
\* returned
updateChildrenFineGrained(d, result) ==
    IF result # Ignore /\ (~d.isInitialized \/ result # d.lastChildrenResult)
    THEN [renderStaticChildren([d EXCEPT !.kids = << >>], result.keys)
            EXCEPT !.lastChildrenResult = result, !.isInitialized = TRUE]
    ELSE d

\* the observations of a run: what the run was given and what it started from
Observed(d, op, result) ==
    [d EXCEPT !.op = op, !.result = result, !.pre = d.kids, !.preState = d.lastChildrenState,
              !.created = {}, !.cleaned = {}, !.runs = @ + 1]

\* #handleChildren for a children function: fine-grained mode runs
\* updateChildren once; batch mode runs it once and then reconciles what the
\* function returns against no old children
HandleChildren ==
    \E mode \in {"fine-grained", "batch"}, result \in ChildResults :
        /\ dom.mode = "none"
        /\ dom' = IF mode = "batch"
                  THEN reconcileChildren(
                           updateChildrenOptimized(Observed([dom EXCEPT !.mode = mode], "mount", result),
                                                   result),
                           << >>, result)
                  ELSE updateChildrenFineGrained(Observed([dom EXCEPT !.mode = mode], "mount", result),
                                                 result)
        /\ UNCHANGED <<storeVars, cm, page>>

\* a state change runs updateChildren again
UpdateChildren ==
    \E result \in ChildResults :
        /\ dom.mode # "none"
        /\ dom.runs < MaxRuns
        /\ dom' = IF dom.mode = "batch"
                  THEN updateChildrenOptimized(Observed(dom, "update", result), result)
                  ELSE updateChildrenFineGrained(Observed(dom, "update", result), result)
        /\ UNCHANGED <<storeVars, cm, page>>

NextChildren == HandleChildren \/ UpdateChildren

SpecChildren == Init /\ [][NextChildren]_vars

---------------------------------------------------------------------------
(* SpecKeys: a batch-mode children function whose children may have equal *)
(* keys: an explicit key given twice, or two descriptions with the same    *)
(* tag and props, for which #generateKey returns the same string           *)

MaxKeyRuns == 3

KeyLists ==
    {[t |-> "list", keys |-> ks] : ks \in UNION {[1 .. n -> {1, 2}] : n \in 0 .. MaxList}}

\* #handleChildren in batch mode for a children function
KeysMount ==
    \E result \in KeyLists :
        /\ dom.mode = "none"
        /\ dom' = reconcileChildren(
                      updateChildrenOptimized(Observed([dom EXCEPT !.mode = "batch"], "mount",
                                                       result),
                                              result),
                      << >>, result)
        /\ UNCHANGED <<storeVars, cm, page>>

\* a state change runs updateChildren again
KeysUpdate ==
    \E result \in KeyLists :
        /\ dom.mode # "none"
        /\ dom.runs < MaxKeyRuns
        /\ dom' = updateChildrenOptimized(Observed(dom, "update", result), result)
        /\ UNCHANGED <<storeVars, cm, page>>

NextKeys == KeysMount \/ KeysUpdate

SpecKeys == Init /\ [][NextKeys]_vars

---------------------------------------------------------------------------
(* SpecPool: batch-mode children lists long enough to fill the recycle     *)
(* pool of their tag.  The children of a list of length n have the keys    *)
(* 1 .. n.                                                                 *)

MaxPoolRuns == 3

PoolKeys == 1 .. (RECYCLE_POOL_SIZE + 1)

\* the lengths of the lists the children function returns
PoolSizes == {0, 1, 2, RECYCLE_POOL_SIZE - 1, RECYCLE_POOL_SIZE, RECYCLE_POOL_SIZE + 1}

PoolList(n) == [t |-> "list", keys |-> [i \in 1 .. n |-> i]]

\* as Init, the keys of the children being PoolKeys
InitPool ==
    /\ state = EmptyMap
    /\ middleware = << >>
    /\ subscribers = << >>
    /\ externalSubscribers = << >>
    /\ currentTracking = << >>
    /\ isUpdating = FALSE
    /\ currentlyUpdating = {}
    /\ isBatching = FALSE
    /\ batchQueue = << >>
    /\ batchedPaths = {}
    /\ promises = << >>
    /\ lastRead = [c \in Callbacks |-> [ran |-> FALSE, deps |-> << >>]]
    /\ unsubs = {}
    /\ nextSub = 1
    /\ last = NoCall
    /\ log = << >>
    /\ steps = 0
    /\ written = {}
    /\ dom = [NoElement EXCEPT !.elementCache = [k \in PoolKeys |-> 0]]
    /\ cm = NoComponents
    /\ page = NoPage

\* #handleChildren in batch mode for a children function
PoolMount ==
    \E n \in PoolSizes :
        /\ dom.mode = "none"
        /\ dom' = reconcileChildren(
                      updateChildrenOptimized(Observed([dom EXCEPT !.mode = "batch"], "mount",
                                                       PoolList(n)),
                                              PoolList(n)),
                      << >>, PoolList(n))
        /\ UNCHANGED <<storeVars, cm, page>>

\* a state change runs updateChildren again
PoolUpdate ==
    \E n \in PoolSizes :
        /\ dom.mode # "none"
        /\ dom.runs < MaxPoolRuns
        /\ dom' = updateChildrenOptimized(Observed(dom, "update", PoolList(n)), PoolList(n))
        /\ UNCHANGED <<storeVars, cm, page>>

NextPool == PoolMount \/ PoolUpdate

SpecPool == InitPool /\ [][NextPool]_vars

---------------------------------------------------------------------------
(* SpecProps: a batch-mode children function that returns no child or the  *)
(* child {li: {key: 1, title, text, style}} with plain values.  dom.shown   *)
(* is what each node shows: its title attribute, its text and its style.    *)

MaxPropRuns == 3

PropValues == {"A", "B"}
ChildProps == [title : PropValues, text : PropValues, style : PropValues]

PropLists ==
    {[t |-> "list", keys |-> << >>, props |-> << >>]} \cup
    {[t |-> "list", keys |-> <<1>>, props |-> <<p>>] : p \in ChildProps}

\* what a created or a reset element shows
Blank == [title |-> "", text |-> "", style |-> ""]

\* #updateElementProperties(element, props), shows being what the element
\* shows: every plain property but key, children, text and style is set
updateElementProperties(shows, props) == [shows EXCEPT !.title = props.title]

\* what the nodes show after #reconcileChildren took the renderer from d0 to
\* d1: a child that was a child before (matched by key), or that render found
\* in elementCache, went through #updateElementProperties; a created or
\* recycled one got every property of its description; a node cleaned up into
\* the pool was reset
Shown(d0, d1, newChildren) ==
    [n \in 1 .. Len(d1.jurisKey) |->
        IF \E i \in DOMAIN d1.kids : d1.kids[i] = n
        THEN IF \/ \E j \in DOMAIN d0.childElements : d0.childElements[j] = n
                \/ d0.elementCache[d1.jurisKey[n]] = n
             THEN updateElementProperties(
                      d0.shown[n],
                      newChildren.props[CHOOSE i \in DOMAIN d1.kids : d1.kids[i] = n])
             ELSE newChildren.props[CHOOSE i \in DOMAIN d1.kids : d1.kids[i] = n]
        ELSE IF n \in d1.cleaned THEN Blank
        ELSE d0.shown[n]]

\* #handleChildren in batch mode for a children function
PropsMount ==
    \E result \in PropLists :
        /\ dom.mode = "none"
        /\ dom' = [reconcileChildren(
                       updateChildrenOptimized(Observed([dom EXCEPT !.mode = "batch"], "mount",
                                                        result),
                                               result),
                       << >>, result)
                     EXCEPT !.shown = [n \in 1 .. Len(result.keys) |-> result.props[n]]]
        /\ UNCHANGED <<storeVars, cm, page>>

\* a state change runs updateChildren again
PropsUpdate ==
    \E result \in PropLists :
        /\ dom.mode # "none"
        /\ dom.runs < MaxPropRuns
        /\ dom' = IF dom.lastChildrenState # result
                  THEN [updateChildrenOptimized(Observed(dom, "update", result), result)
                           EXCEPT !.shown = Shown(dom,
                                                  updateChildrenOptimized(
                                                      Observed(dom, "update", result), result),
                                                  result)]
                  ELSE updateChildrenOptimized(Observed(dom, "update", result), result)
        /\ UNCHANGED <<storeVars, cm, page>>

NextProps == PropsMount \/ PropsUpdate

SpecProps == Init /\ [][NextProps]_vars

---------------------------------------------------------------------------
(* SpecLate: a batch-mode children function that returns no child or one   *)
(* child {li: {key, title, text, style}} whose text is a string or a       *)
(* promise of a string, and the promises resolving later                   *)

MaxLateRuns == 3

Str(s) == [t |-> "string", s |-> s]

\* a promise that resolves to the string s
Later(s) == [t |-> "promise", then |-> s]

LateTexts == {Str("A"), Str("B"), Later("P")}

LateLists ==
    {[t |-> "list", keys |-> << >>, props |-> << >>]} \cup
    {[t |-> "list", keys |-> <<k>>, props |-> <<[title |-> "A", text |-> text, style |-> "A"]>>] :
        k \in {1, 2}, text \in LateTexts}

\* defaultPlaceholder.text
PlaceholderText == "Loading..."

\* what #processProperties leaves an element showing for props: _handleText
\* sets a string, and the placeholder text for a promise
Placeheld(props) ==
    [props EXCEPT !.text = IF @.t = "promise" THEN PlaceholderText ELSE @.s]

\* the then-handlers #handleAsyncTextDirect installed while #reconcileChildren
\* took the renderer from d0 to d1: one for each created or recycled child
\* whose text is a promise
Installed(d0, d1, newChildren) ==
    {[node |-> d1.kids[i], key |-> newChildren.keys[i], value |-> newChildren.props[i].text.then] :
        i \in {j \in DOMAIN d1.kids :
                  /\ newChildren.props[j].text.t = "promise"
                  /\ \A q \in DOMAIN d0.childElements : d0.childElements[q] # d1.kids[j]
                  /\ d0.elementCache[d1.jurisKey[d1.kids[j]]] # d1.kids[j]}}

\* the renderer after a run of #reconcileChildren that took it from d0 to d1
Late(d0, d1, newChildren) ==
    [d1 EXCEPT !.shown = Shown(d0, d1, [newChildren EXCEPT
                                           !.props = [i \in DOMAIN @ |-> Placeheld(@[i])]]),
               !.pending = @ \cup Installed(d0, d1, newChildren)]

\* the same as handleAsyncTextSettled, but for a node that is still the
\* child it was bound for
handleAsyncTextSettledBound(d, t) ==
    IF d.jurisKey[t.node] = t.key /\ \E i \in DOMAIN d.kids : d.kids[i] = t.node
    THEN [d EXCEPT !.shown[t.node].text = t.value, !.shown[t.node].style = ""]
    ELSE d

\* the then-handler of #handleAsyncTextDirect: the text is set and the style
\* of the placeholder cleared
handleAsyncTextSettled(d, t) ==
    [d EXCEPT !.shown[t.node].text = t.value, !.shown[t.node].style = ""]

\* #handleChildren in batch mode for a children function
LateMount ==
    \E result \in LateLists :
        /\ dom.mode = "none"
        /\ dom' = Late([dom EXCEPT !.shown = [n \in 1 .. Len(result.keys) |-> Blank]],
                       reconcileChildren(
                           updateChildrenOptimized(Observed([dom EXCEPT !.mode = "batch"], "mount",
                                                            result),
                                                   result),
                           << >>, result),
                       result)
        /\ UNCHANGED <<storeVars, cm, page>>

\* a state change runs updateChildren again
LateUpdate ==
    \E result \in LateLists :
        /\ dom.mode # "none"
        /\ dom.runs < MaxLateRuns
        /\ dom' = IF dom.lastChildrenState # result
                  THEN Late([dom EXCEPT !.shown = @ \o [n \in 1 .. 1 |-> Blank]],
                            updateChildrenOptimized(Observed(dom, "update", result), result),
                            result)
                  ELSE updateChildrenOptimized(Observed(dom, "update", result), result)
        /\ UNCHANGED <<storeVars, cm, page>>

\* the promise of a text resolves
LateSettle ==
    \E t \in dom.pending :
        /\ dom' = handleAsyncTextSettled(
                      [dom EXCEPT !.op = "settle", !.settled = t, !.pending = @ \ {t},
                                  !.pre = dom.kids, !.created = {}, !.cleaned = {}],
                      t)
        /\ UNCHANGED <<storeVars, cm, page>>

NextLate == LateMount \/ LateUpdate \/ LateSettle

SpecLate == Init /\ [][NextLate]_vars

---------------------------------------------------------------------------
(* ComponentManager: one registered component name, "C".  What the          *)
(* registered factory does is a record: the shape of what it returns (a     *)
(* description, an object with hooks, api and render, or an object with api *)
(* and render), whether its body calls newState("k", 0), whether a handler  *)
(* it installs calls newState("j", 0), whether it returns a deferred value, *)
(* and whether the description it renders has a {C: {}} child.  A prop is   *)
(* "none", or a pending deferred value that "resolves" or "rejects".        *)

MaxComponentSteps == 4
MaxInstances == 3

CName == <<"C">>
LocalPrefix == <<"#", "#", "l", "o", "c", "a", "l">>
KeyK == <<"k">>
KeyJ == <<"j">>
IndexDigits == <<"1", "2", "3", "4", "5", "6", "7", "8", "9">>

\* `##local.${componentId}.${key}` with componentId = `${name}#${instanceIndex}`
statePath(instanceIndex, key) ==
    LocalPrefix \o <<Dot>> \o CName \o <<"#", IndexDigits[instanceIndex]>> \o <<Dot>> \o key

ComponentFns ==
    [shape : {"vdom", "lifecycle", "reactive"}, body : BOOLEAN, later : BOOLEAN,
     deferred : BOOLEAN, selfRef : BOOLEAN]

\* document.createElement: the element Len(c.els) + 1, not yet in a parent
NewElement(c, kind, props, inst, selfRef) ==
    [c EXCEPT !.els = Append(@, [kind |-> kind, parent |-> 0, props |-> props, inst |-> inst,
                                 selfRef |-> selfRef, unmounted |-> 0])]

\* parent.appendChild(e)
appendChild(c, parent, e) == [c EXCEPT !.els[e].parent = parent]

\* if (realElement && placeholder.parentNode) placeholder.parentNode.replaceChild(realElement, placeholder)
replaceChild(c, realElement, placeholder) ==
    IF c.els[placeholder].parent # 0
    THEN [c EXCEPT !.els[realElement].parent = c.els[placeholder].parent,
                   !.els[placeholder].parent = 0]
    ELSE c

\* #setupComponent, #createComponentContext and the call of the factory, whose
\* body may call newState("k", 0): newState adds the path to componentStates
\* and writes nothing, a fresh Symbol('not-found') being equal to no value
CallFactory(c, componentFn) ==
    [c EXCEPT !.componentCounters = @ + 1,
              !.contexts = Append(@, [componentFn |-> componentFn, el |-> 0,
                                      componentStates |->
                                          IF componentFn.body
                                          THEN {statePath(c.componentCounters + 1, KeyK)}
                                          ELSE {}])]

\* #handleAsyncComponent: a placeholder now, the result when it resolves
handleAsyncComponent(c, componentFn, props) ==
    [NewElement(c, "placeholder", "none", 0, FALSE)
        EXCEPT !.tasks = @ \cup {[kind |-> "factory", placeholder |-> Len(c.els) + 1,
                                  componentFn |-> componentFn, props |-> props,
                                  outcome |-> "none", inst |-> c.componentCounters,
                                  cache |-> FALSE]}]

\* #processComponentResult: instances.set, namedComponents.set for a result
\* with hooks or render (its api is not empty), componentStates.set when the
\* instance has called newState by now
RegisterElement(c, e, inst, isInstance) ==
    [c EXCEPT !.instances = IF isInstance THEN @ \cup {e} ELSE @,
              !.namedComponents = IF isInstance THEN e ELSE @,
              !.componentStates = IF c.contexts[inst].componentStates # {}
                                  THEN @ \cup {<<e, inst>>} ELSE @,
              !.contexts[inst].el = e]

\* if (instance.hooks.onMount) setTimeout(() => instance.hooks.onMount(), 0):
\* an object with hooks has onMount and onUnmount
ScheduleMount(c, e, hasHooks) ==
    [c EXCEPT !.timers = IF hasHooks THEN Append(@, e) ELSE @]

\* this.componentStack.pop()
Popped(c) == [c EXCEPT !.componentStack = SubSeq(@, 1, Len(@) - 1)]

RECURSIVE render(_, _)
RECURSIVE createSyncComponent(_, _, _)
RECURSIVE processComponentResult(_, _, _, _)

\* the {C: {}} child of a rendered description, appended to the element e
RenderChild(c, e, componentFn) ==
    IF componentFn.selfRef
    THEN appendChild(render(c, "none"), e, Len(c.els) + 1)
    ELSE c

\* #processComponentResult(result, name, props, componentStates); the element
\* it returns is Len(c.els) + 1.  A result with hooks is rendered before it is
\* registered; a result with render alone is registered and then rendered by
\* its reactive update
processComponentResult(c, componentFn, inst, props) ==
    IF componentFn.shape = "reactive"
    THEN RenderChild(RegisterElement(NewElement(c, "component", props, inst, componentFn.selfRef),
                                     Len(c.els) + 1, inst, TRUE),
                     Len(c.els) + 1, componentFn)
    ELSE ScheduleMount(
             RegisterElement(RenderChild(NewElement(c, "component", props, inst,
                                                    componentFn.selfRef),
                                         Len(c.els) + 1, componentFn),
                             Len(c.els) + 1, inst, componentFn.shape = "lifecycle"),
             Len(c.els) + 1, componentFn.shape = "lifecycle")

\* #createSyncComponent, and the same lines of create
createSyncComponent(c, componentFn, props) ==
    IF componentFn.deferred
    THEN handleAsyncComponent(CallFactory(c, componentFn), componentFn, props)
    ELSE processComponentResult(CallFactory(c, componentFn), componentFn,
                                c.componentCounters + 1, props)

\* #createWithAsyncProps and the synchronous start of #resolveAsyncProps, which
\* answers from asyncPropsCache when the entry is younger than 5000 ms: every
\* props object with one pending prop has the same cache key
createWithAsyncProps(c, componentFn, props) ==
    [NewElement(c, "placeholder", "none", 0, FALSE)
        EXCEPT !.tasks = @ \cup {[kind |-> "props", placeholder |-> Len(c.els) + 1,
                                  componentFn |-> componentFn,
                                  props |-> IF c.asyncPropsCache # "none" /\ c.fresh
                                            THEN c.asyncPropsCache
                                            ELSE IF props = "resolves" THEN "value"
                                            ELSE "asyncError",
                                  outcome |-> props, inst |-> 0,
                                  cache |-> ~(c.asyncPropsCache # "none" /\ c.fresh)]}]

\* ComponentManager.create(name, props)
create(c, props) ==
    IF props \in {"resolves", "rejects"}
    THEN createWithAsyncProps(c, c.components, props)
    ELSE createSyncComponent(c, c.components, props)

\* DOMRenderer.render({C: props})
render(c, props) ==
    IF SetHas(c.componentStack, CName)
    THEN NewElement(c, "diagnostic", "none", 0, FALSE)
    ELSE Popped(create([c EXCEPT !.componentStack = Append(@, CName)], props))

\* ComponentManager.cleanup(element)
componentCleanup(c, e) ==
    [c EXCEPT !.els[e].unmounted =
                  IF e \in c.instances /\ c.contexts[c.els[e].inst].componentFn.shape = "lifecycle"
                  THEN @ + 1 ELSE @,
              !.deleted = @ \cup UNION {c.contexts[q[2]].componentStates :
                                            q \in {r \in c.componentStates : r[1] = e}},
              !.componentStates = {r \in @ : r[1] # e},
              !.instances = @ \ {e},
              !.torn = @ \cup {e}]

\* DOMRenderer.cleanup(element) run for each element of a list: the component
\* manager's cleanup, then the element's children
RECURSIVE cleanupElements(_, _)
cleanupElements(c, list) ==
    IF list = << >> THEN c
    ELSE cleanupElements(
             cleanupElements(componentCleanup(c, Head(list)),
                             SelectSeq([i \in 1 .. Len(c.els) |-> i],
                                       LAMBDA k : c.els[k].parent = Head(list))),
             Tail(list))

\* the loop of cleanup over a path of componentStates: delete the last part
\* where every part before it leads to an object
RECURSIVE DeleteIn(_, _)
DeleteIn(obj, parts) ==
    IF Len(parts) = 1 THEN [k \in DOMAIN obj \ {parts[1]} |-> obj[k]]
    ELSE IF Head(parts) \in DOMAIN obj /\ IsObj(obj[Head(parts)])
    THEN (Head(parts) :> Obj(DeleteIn(obj[Head(parts)].f, Tail(parts)))) @@ obj
    ELSE obj

RECURSIVE DeleteAll(_, _)
DeleteAll(obj, paths) ==
    IF paths = {} THEN obj
    ELSE DeleteAll(DeleteIn(obj, getPathParts(CHOOSE p \in paths : TRUE)),
                   paths \ {CHOOSE p \in paths : TRUE})

\* the observations of a step
Step(c, op) ==
    [c EXCEPT !.op = op, !.steps = @ + 1, !.torn = {}, !.deleted = {}, !.real = 0,
              !.task = [kind |-> "none"], !.attached = FALSE]

\* juris.registerComponent("C", componentFn)
Register ==
    \E componentFn \in ComponentFns :
        /\ cm.steps < MaxComponentSteps
        /\ cm' = [Step(cm, "register") EXCEPT !.components = componentFn]
        /\ UNCHANGED <<storeVars, dom, page>>

\* the application renders {C: props} and appends the element to the container
Render ==
    \E props \in {"none", "resolves", "rejects"}, fresh \in BOOLEAN :
        /\ cm.steps < MaxComponentSteps
        /\ cm.components.shape # "none"
        /\ cm.componentCounters < MaxInstances
        /\ props = "none" => ~fresh
        /\ cm' = appendChild(render([Step(cm, "render") EXCEPT
                                         !.fresh = fresh, !.real = Len(cm.els) + 1,
                                         !.task = [kind |-> "render", outcome |-> props]],
                                    props),
                             1, Len(cm.els) + 1)
        /\ UNCHANGED <<storeVars, dom, page>>

\* a deferred value settles: the then-handler of #createWithAsyncProps (after
\* #resolveAsyncProps stored what it resolved) or of #handleAsyncComponent
SettleComponent ==
    \E t \in cm.tasks :
        /\ cm.steps < MaxComponentSteps
        /\ cm.componentCounters < MaxInstances
        /\ cm' = replaceChild(
                    IF t.kind = "props"
                    THEN createSyncComponent(
                             [Step(cm, "settle") EXCEPT
                                  !.tasks = @ \ {t},
                                  !.asyncPropsCache = IF t.cache THEN t.props ELSE @,
                                  !.task = t, !.real = Len(cm.els) + 1,
                                  !.attached = cm.els[t.placeholder].parent # 0],
                             t.componentFn, t.props)
                    ELSE processComponentResult(
                             [Step(cm, "settle") EXCEPT
                                  !.tasks = @ \ {t},
                                  !.task = t, !.real = Len(cm.els) + 1,
                                  !.attached = cm.els[t.placeholder].parent # 0],
                             t.componentFn, t.inst, t.props),
                    Len(cm.els) + 1, t.placeholder)
        /\ UNCHANGED <<storeVars, dom, page>>

\* the state tree apart from the tree itself
storeRest == <<middleware, subscribers, externalSubscribers, currentTracking, isUpdating,
               currentlyUpdating, isBatching, batchQueue, batchedPaths, promises, lastRead,
               unsubs, nextSub, last, log, steps, written>>

\* the setter newState returned, called with 1
SetLocal(sm, called, path) == IF called THEN setState(sm, path, Num(1)) ELSE sm

\* an event handler of a mounted instance runs: it calls the setter of "k" when
\* the body made one, and calls newState("j", 0) and its setter when the
\* factory installs such a handler
Handler ==
    \E inst \in 1 .. Len(cm.contexts) :
        /\ cm.steps < MaxComponentSteps
        /\ cm.contexts[inst].el # 0
        /\ cm.els[cm.contexts[inst].el].parent # 0
        /\ cm.contexts[inst].componentFn.body \/ cm.contexts[inst].componentFn.later
        /\ cm' = [Step(cm, "handler") EXCEPT
                      !.contexts[inst].componentStates =
                          IF cm.contexts[inst].componentFn.later
                          THEN @ \cup {statePath(inst, KeyJ)} ELSE @]
        /\ state' = SetLocal(SetLocal(Store, cm.contexts[inst].componentFn.body,
                                      statePath(inst, KeyK)),
                             cm.contexts[inst].componentFn.later, statePath(inst, KeyJ)).state
        /\ UNCHANGED <<storeRest, dom, page>>

\* a child of the container is removed and DOMRenderer.cleanup runs on it
Teardown ==
    \E e \in 1 .. Len(cm.els) :
        /\ cm.steps < MaxComponentSteps
        /\ cm.els[e].parent = 1
        /\ cm' = cleanupElements([Step(cm, "teardown") EXCEPT !.els[e].parent = 0], <<e>>)
        /\ state' = DeleteAll(state, cm'.deleted)
        /\ UNCHANGED <<storeRest, dom, page>>

NextComponents == Register \/ Render \/ SettleComponent \/ Handler \/ Teardown

SpecComponents == Init /\ [][NextComponents]_vars

---------------------------------------------------------------------------
(* Deferred values bound to nodes.  A layout is a list of elements, each    *)
(* with one deferred prop: a generic attribute ("title"), "text" or         *)
(* "style".  The deferred value is pending, or has already fulfilled or     *)
(* rejected when the layout is rendered; the handlers of a settled value    *)
(* run as microtasks, before anything that waits for a timer.               *)

MaxLayout == 2
MaxRenders == 2

LoadingClass == "juris-async-loading"
ErrorClass == "juris-async-error"

AsyncProps == [key : {"title", "text", "style"}, promise : {"pending", "fulfilled", "rejected"}]
Layouts == UNION {[1 .. n -> AsyncProps] : n \in 1 .. MaxLayout}

\* trackingPromisify(result): only a result that is not thenable, and so was
\* wrapped, is added to activePromises
trackingPromisify(p, n, thenable) ==
    IF p.isTracking /\ ~thenable THEN [p EXCEPT !.activePromises = @ \cup {n}] ELSE p

\* the synchronous part of #handleAsyncProp, #handleAsyncTextDirect and
\* #handleAsyncStyleDirect with the default placeholder configuration
handleAsyncProp(key, at, renders) ==
    [key |-> key, at |-> at, render |-> renders, promise |-> "pending",
     classes |-> {LoadingClass},
     attr |-> IF key = "title" THEN "loading" ELSE "none",
     text |-> IF key = "text" THEN "Loading..." ELSE "",
     style |-> IF key = "title" THEN "" ELSE "loading"]

\* the then-handlers
Fulfilled(node) ==
    IF node.key = "title"
    THEN [node EXCEPT !.promise = "fulfilled", !.classes = @ \ {LoadingClass}, !.attr = "value"]
    ELSE IF node.key = "text"
    THEN [node EXCEPT !.promise = "fulfilled", !.text = "value", !.classes = @ \ {LoadingClass},
                      !.style = ""]
    ELSE [node EXCEPT !.promise = "fulfilled", !.classes = @ \ {LoadingClass}, !.style = "value"]

\* the catch-handlers: #setErrorState for a generic attribute, the handler of
\* #handleAsyncTextDirect for text, a log entry alone for style
Rejected(node) ==
    IF node.key = "title"
    THEN [node EXCEPT !.promise = "rejected", !.classes = @ \cup {ErrorClass}]
    ELSE IF node.key = "text"
    THEN [node EXCEPT !.promise = "rejected", !.text = "Error", !.classes = @ \cup {ErrorClass}]
    ELSE [node EXCEPT !.promise = "rejected"]

\* the microtasks of a value that had settled before it was bound
Microtask(node, promise) ==
    IF promise = "fulfilled" THEN Fulfilled(node)
    ELSE IF promise = "rejected" THEN Rejected(node)
    ELSE node

\* DOMRenderer.render(layout) into a parent, followed by the microtasks
RECURSIVE renderLayout(_, _, _)
renderLayout(p, layout, at) ==
    IF layout = << >> THEN p
    ELSE renderLayout(
             [trackingPromisify(p, Len(p.nodes) + 1, TRUE) EXCEPT
                  !.nodes = Append(@, Microtask(handleAsyncProp(Head(layout).key, at, p.renders),
                                                Head(layout).promise))],
             Tail(layout), at)

\* containerEl.innerHTML = ''
Emptied(p) ==
    [p EXCEPT !.nodes = [i \in DOMAIN @ |->
                            IF @[i].at = "container" THEN [@[i] EXCEPT !.at = "detached"] ELSE @[i]]]

\* #renderImmediate(containerEl)
renderImmediate(p, layout) == renderLayout(Emptied(p), layout, "container")

\* while (stagingEl.firstChild) containerEl.appendChild(stagingEl.firstChild)
Swapped(p) ==
    [p EXCEPT !.nodes = [i \in DOMAIN @ |->
                            IF @[i].at = "staging" THEN [@[i] EXCEPT !.at = "container"] ELSE @[i]],
              !.isTracking = FALSE]

\* finally { stopTracking(); document.body.removeChild(stagingEl) } after an
\* exception
Unstaged(p) ==
    [p EXCEPT !.nodes = [i \in DOMAIN @ |->
                            IF @[i].at = "staging" THEN [@[i] EXCEPT !.at = "detached"] ELSE @[i]],
              !.isTracking = FALSE]

\* #renderWithHydration(containerEl): onAllComplete() is called without a
\* callback and returns the function that unsubscribes, so the await continues
\* after the microtasks already queued, whatever activePromises holds; with
\* activePromises empty it calls setTimeout(undefined, 0), which throws where
\* the platform's setTimeout demands a function
renderWithHydration(p, layout, timerThrows) ==
    IF timerThrows /\ renderLayout([p EXCEPT !.isTracking = TRUE, !.activePromises = {}],
                                   layout, "staging").activePromises = {}
    THEN Unstaged(renderLayout([p EXCEPT !.isTracking = TRUE, !.activePromises = {}],
                               layout, "staging"))
    ELSE Swapped(Emptied(renderLayout([p EXCEPT !.isTracking = TRUE, !.activePromises = {}],
                                      layout, "staging")))

\* juris.render(container) with or without the hydration flag
RenderPage ==
    \E layout \in Layouts, isHydration \in BOOLEAN, timerThrows \in BOOLEAN :
        /\ page.renders < MaxRenders
        /\ timerThrows => isHydration
        /\ page' = IF isHydration
                   THEN renderWithHydration([page EXCEPT !.mode = "hydration", !.renders = @ + 1],
                                            layout, timerThrows)
                   ELSE renderImmediate([page EXCEPT !.mode = "immediate", !.renders = @ + 1],
                                        layout)
        /\ UNCHANGED <<storeVars, dom, cm>>

\* a pending deferred value settles
SettleValue ==
    \E n \in DOMAIN page.nodes, promise \in {"fulfilled", "rejected"} :
        /\ page.nodes[n].promise = "pending"
        /\ page' = [page EXCEPT !.nodes[n] = Microtask(@, promise)]
        /\ UNCHANGED <<storeVars, dom, cm>>

NextAsync == RenderPage \/ SettleValue

SpecAsync == Init /\ [][NextAsync]_vars

---------------------------------------------------------------------------
(* SpecNotify: a store constructed with middleware, whose subscribers read *)
(* and throw but never write                                               *)

MaxNotifySteps == 3

\* the middleware array handed to the constructor
MiddlewareLists ==
    {<< >>, <<"throwsNull">>, <<"bump", "throws", "clamp">>, <<"clamp", "throws", "bump">>}

NotifyCallbacks == {"obs", "boom", "boomc"}
NotifyPaths == {P_a, P_ab}
NotifyValues == {Num(1), Num(2)}

\* new StateManager(initialState, middleware)
InitMiddleware ==
    /\ state = EmptyMap
    /\ middleware \in MiddlewareLists
    /\ subscribers = << >>
    /\ externalSubscribers = << >>
    /\ currentTracking = << >>
    /\ isUpdating = FALSE
    /\ currentlyUpdating = {}
    /\ isBatching = FALSE
    /\ batchQueue = << >>
    /\ batchedPaths = {}
    /\ promises = << >>
    /\ lastRead = [c \in Callbacks |-> [ran |-> FALSE, deps |-> << >>]]
    /\ unsubs = {}
    /\ nextSub = 1
    /\ last = NoCall
    /\ log = << >>
    /\ steps = 0
    /\ written = {}
    /\ dom = NoElement
    /\ cm = NoComponents
    /\ page = NoPage

\* in SpecNotify unsubs tells when each registration was made: the number of
\* the call for subscribeInternal, the number of the subscription for subscribe
NotifySetState ==
    \E path \in NotifyPaths, value \in NotifyValues :
        /\ steps < MaxNotifySteps
        /\ Commit(setState(Store, path, value),
                  [Call("setState") EXCEPT !.path = path, !.value = value])
        /\ UNCHANGED <<promises, unsubs>>

NotifySubscribeInternal ==
    \E path \in NotifyPaths, callback \in NotifyCallbacks :
        /\ steps < MaxNotifySteps
        /\ Commit(subscribeInternal(Store, path, callback),
                  [Call("subscribeInternal") EXCEPT !.path = path, !.callback = callback])
        /\ unsubs' = unsubs \cup {[reg |-> "internal", path |-> path, callback |-> callback,
                                   id |-> steps + 1]}
        /\ UNCHANGED promises

NotifySubscribe ==
    \E path \in NotifyPaths, callback \in NotifyCallbacks :
        /\ steps < MaxNotifySteps
        /\ Commit(subscribe(Store, path, callback, TRUE),
                  [Call("subscribe") EXCEPT !.path = path, !.callback = callback])
        /\ unsubs' = unsubs \cup {[reg |-> "external", path |-> path, callback |-> callback,
                                   id |-> nextSub]}
        /\ UNCHANGED promises

\* executeBatch(() => setState('a', 2))
NotifyExecuteBatch ==
    /\ steps < MaxNotifySteps
    /\ Commit(executeBatch(Store, "one"), [Call("executeBatch") EXCEPT !.fn = "one"])
    /\ UNCHANGED <<promises, unsubs>>

NextNotify ==
    \/ NotifySetState
    \/ NotifySubscribeInternal
    \/ NotifySubscribe
    \/ NotifyExecuteBatch

SpecNotify == InitMiddleware /\ [][NextNotify]_vars

---------------------------------------------------------------------------
(* SpecBindings: elements with one reactive attribute each, created and    *)
(* torn down by the renderer while the application writes                  *)

MaxBindingSteps == 4

\* the update functions of the reactive attributes, one element each
BindingFns == {"r1", "wx", "rc"}
BindingValues == {Num(1), Num(2)}

RECURSIVE unsubscribeAll(_, _)
\* data.subscriptions.forEach(unsub => unsub()) of DOMRenderer.cleanup(element)
unsubscribeAll(sm, subscriptions) ==
    IF subscriptions = {} THEN sm
    ELSE unsubscribeAll(unsubscribeInternal(sm, (CHOOSE u \in subscriptions : TRUE).path,
                                            (CHOOSE u \in subscriptions : TRUE).callback),
                        subscriptions \ {CHOOSE u \in subscriptions : TRUE})

\* the unsubscribe functions the renderer keeps for the element of updateFn
ElementSubscriptions(updateFn) == {u \in unsubs : u.callback = updateFn}

\* the renderer sets a reactive attribute of a new element
BindingCreate ==
    \E updateFn \in BindingFns :
        /\ steps < MaxBindingSteps
        /\ ~lastRead[updateFn].ran
        /\ CommitBinding(createReactiveUpdate(Store, updateFn), updateFn)
        /\ UNCHANGED promises

\* DOMRenderer.cleanup(element), for the element of updateFn
BindingCleanup ==
    \E updateFn \in BindingFns :
        /\ steps < MaxBindingSteps
        /\ ElementSubscriptions(updateFn) # {}
        /\ Commit(unsubscribeAll(Store, ElementSubscriptions(updateFn)),
                  [Call("cleanup") EXCEPT !.callback = updateFn])
        /\ unsubs' = unsubs \ ElementSubscriptions(updateFn)
        /\ UNCHANGED promises

BindingSetState ==
    \E path \in Paths, value \in BindingValues :
        /\ steps < MaxBindingSteps
        /\ Commit(setState(Store, path, value),
                  [Call("setState") EXCEPT !.path = path, !.value = value])
        /\ UNCHANGED <<promises, unsubs>>

NextBindings == BindingCreate \/ BindingCleanup \/ BindingSetState

SpecBindings == Init /\ [][NextBindings]_vars

---------------------------------------------------------------------------
(* SpecLifecycle: components whose result has hooks, rendered, torn down   *)
(* and mounted by their timers                                             *)

\* the factories: a description or an object with hooks, at once or deferred
LifecycleFns ==
    [shape : {"vdom", "lifecycle"}, body : {FALSE}, later : {FALSE},
     deferred : BOOLEAN, selfRef : BOOLEAN]

RECURSIVE WasAttached(_, _)
\* e is or was below the container: it is the container, or a child the
\* container had, or below one of these
WasAttached(c, e) ==
    IF e = 1 \/ e \in c.removed THEN TRUE
    ELSE IF c.els[e].parent = 0 THEN FALSE
    ELSE WasAttached(c, c.els[e].parent)

\* juris.registerComponent("C", componentFn)
LifecycleRegister ==
    \E componentFn \in LifecycleFns :
        /\ cm.steps < MaxComponentSteps
        /\ cm' = [Step(cm, "register") EXCEPT !.components = componentFn]
        /\ UNCHANGED <<storeVars, dom, page>>

\* the oldest timer of #processComponentResult fires: onMount runs
MountTimer ==
    /\ cm.timers # << >>
    /\ cm' = [Step(cm, "onMount") EXCEPT
                  !.timers = Tail(@),
                  !.mounted = Append(@, [el |-> Head(cm.timers),
                                         attached |-> WasAttached(cm, Head(cm.timers)),
                                         unmounted |-> cm.els[Head(cm.timers)].unmounted])]
    /\ UNCHANGED <<storeVars, dom, page>>

\* a child of the container is removed and DOMRenderer.cleanup runs on it
LifecycleTeardown ==
    \E e \in 1 .. Len(cm.els) :
        /\ cm.steps < MaxComponentSteps
        /\ cm.els[e].parent = 1
        /\ cm' = cleanupElements([Step(cm, "teardown") EXCEPT !.els[e].parent = 0,
                                                             !.removed = @ \cup {e}],
                                 <<e>>)
        /\ UNCHANGED <<storeVars, dom, page>>

NextLifecycle ==
    LifecycleRegister \/ Render \/ SettleComponent \/ LifecycleTeardown \/ MountTimer

SpecLifecycle == Init /\ [][NextLifecycle]_vars

---------------------------------------------------------------------------
(* SpecUpdate: one component instance whose element is given new props,    *)
(* some of them deferred                                                   *)

MaxUpdateSteps == 4

KeyV == <<"v">>

\* a promise that resolves to value: typeof 'object', no own enumerable keys
Deferred(value) == [t |-> "object", f |-> << >>, then |-> value]

\* #isPromiseLike(value)
isPromiseLike(value) == IsObj(value) /\ "then" \in DOMAIN value

\* {v: value}
PropsOf(value) == Obj(KeyV :> value)

\* the props an instance is created with, and the props of an update
InstanceProps == {PropsOf(Num(1)), PropsOf(Num(2))}
UpdateProps == InstanceProps \cup {PropsOf(Deferred(Num(1))), PropsOf(Deferred(Num(2)))}

\* the component results: hooks with onUpdate, hooks without it, render alone
InstanceKinds == {"hooks", "plain", "reactive"}

\* DOMRenderer._hasAsyncProps(props)
hasAsyncProps(props) ==
    \E key \in Keys(props) : ~StartsWith(key, <<"o", "n">>) /\ isPromiseLike(props.f[key])

\* #generateCacheKey(props): JSON.stringify with '[Promise]' for each promise
generateCacheKey(props) ==
    [key \in Keys(props) |-> IF isPromiseLike(props.f[key]) THEN [t |-> "string", s |-> "[Promise]"]
                          ELSE props.f[key]]

\* what each value of props is once the promises among them have resolved
Resolved(props) ==
    Obj([key \in Keys(props) |-> IF isPromiseLike(props.f[key]) THEN props.f[key].then
                                 ELSE props.f[key]])

\* #performUpdate(instance, element, oldProps, newProps): an instance made of
\* a result with render alone has no hooks, and reading hooks.onUpdate throws
performUpdate(c, oldProps, newProps) ==
    IF c.kind = "reactive" THEN [c EXCEPT !.threw = TRUE]
    ELSE [c EXCEPT !.calls = (IF c.kind = "hooks"
                              THEN <<[fn |-> "onUpdate", oldProps |-> oldProps,
                                      newProps |-> newProps]>>
                              ELSE << >>) \o <<[fn |-> "render"]>>,
                   !.renders = @ + 1,
                   !.content = c.renders + 1]

\* ComponentManager.updateInstance(element, newProps) up to its return; fresh
\* tells whether an entry of asyncPropsCache is younger than 5000 ms
updateInstance(c, newProps, fresh) ==
    IF deepEquals(c.props, newProps) THEN c
    ELSE IF hasAsyncProps(newProps)
    THEN [c EXCEPT !.tasks = @ \cup
              {[oldProps |-> c.props, newProps |-> newProps,
                hit |-> fresh /\ c.asyncPropsCache.key = generateCacheKey(newProps),
                resolvedProps |->
                    IF fresh /\ c.asyncPropsCache.key = generateCacheKey(newProps)
                    THEN c.asyncPropsCache.props ELSE Resolved(newProps)]}]
    ELSE performUpdate([c EXCEPT !.props = newProps], c.props, newProps)

\* the observations of a call
Called(c, op, newProps) ==
    [c EXCEPT !.op = op, !.steps = @ + 1, !.calls = << >>, !.threw = FALSE,
              !.newProps = newProps, !.oldProps = c.props]

\* a component is rendered with props and registered in instances
UpdateMount ==
    \E kind \in InstanceKinds, props \in InstanceProps :
        /\ cm.op = "none"
        /\ cm' = [op |-> "mount", steps |-> 1, kind |-> kind,
                  props |-> IF kind = "reactive" THEN Undefined ELSE props,
                  calls |-> << >>, threw |-> FALSE, renders |-> 1, content |-> 1,
                  tasks |-> {}, asyncPropsCache |-> [key |-> << >>, props |-> Undefined],
                  newProps |-> Undefined, oldProps |-> Undefined]
        /\ UNCHANGED <<storeVars, dom, page>>

\* the application calls updateInstance(element, newProps)
UpdateInstance ==
    \E newProps \in UpdateProps, fresh \in BOOLEAN :
        /\ cm.op # "none"
        /\ cm.steps < MaxUpdateSteps
        /\ fresh => cm.asyncPropsCache.key # << >>
        /\ cm' = updateInstance(Called(cm, "updateInstance", newProps), newProps, fresh)
        /\ UNCHANGED <<storeVars, dom, page>>

\* the deferred props of an update have resolved: the rest of
\* #resolveAsyncProps and the then-handler of updateInstance
UpdateSettle ==
    \E t \in cm.tasks :
        /\ cm.steps < MaxUpdateSteps
        /\ cm' = performUpdate(
                    [Called(cm, "settle", t.newProps) EXCEPT
                         !.tasks = @ \ {t},
                         !.oldProps = t.oldProps,
                         !.asyncPropsCache = IF t.hit THEN @
                                             ELSE [key |-> generateCacheKey(t.newProps),
                                                   props |-> t.resolvedProps],
                         !.props = t.resolvedProps],
                    t.oldProps, t.resolvedProps)
        /\ UNCHANGED <<storeVars, dom, page>>

NextUpdate == UpdateMount \/ UpdateInstance \/ UpdateSettle

SpecUpdate == Init /\ [][NextUpdate]_vars

---------------------------------------------------------------------------
(* SpecTouch: an element rendered with an onclick handler, and the touch   *)
(* events of one finger on it.  page holds the variables of the closure    *)
(* _handleEvent makes, the clock, and what the finger did since touchstart *)

MaxTouchSteps == 5

\* TOUCH_CONFIG
MoveThreshold == 10
TimeThreshold == 300

\* clientX and clientY of a touch, and the milliseconds between two events
Coordinates == {0, MoveThreshold, MoveThreshold + 1}
Delays == {0, TimeThreshold - 1, TimeThreshold}

Abs(n) == IF n < 0 THEN 0 - n ELSE n

\* the observations of an event
TouchEvent(p, op, delay) ==
    [p EXCEPT !.op = op, !.steps = @ + 1, !.now = @ + delay, !.invoked = 0, !.threw = FALSE]

\* _handleEvent(element, 'onclick', handler, eventListeners)
TouchAttach ==
    /\ page.mode = "none"
    /\ page' = [mode |-> "touch", op |-> "attach", steps |-> 0, now |-> 0,
                touchStartTime |-> 0, touchMoved |-> FALSE, startX |-> 0, startY |-> 0,
                invoked |-> 0, threw |-> FALSE,
                down |-> FALSE, beganAt |-> 0, beganX |-> 0, beganY |-> 0, strayed |-> FALSE]
    /\ UNCHANGED <<storeVars, dom, cm>>

\* touchStart(e)
TouchStart ==
    \E x \in Coordinates, y \in Coordinates, delay \in Delays :
        /\ page.mode = "touch" /\ ~page.down
        /\ page.steps < MaxTouchSteps
        /\ page' = [TouchEvent(page, "touchstart", delay) EXCEPT
                        !.touchStartTime = page.now + delay, !.touchMoved = FALSE,
                        !.startX = x, !.startY = y,
                        !.down = TRUE, !.beganAt = page.now + delay,
                        !.beganX = x, !.beganY = y, !.strayed = FALSE]
        /\ UNCHANGED <<storeVars, dom, cm>>

\* touchMove(e)
TouchMove ==
    \E x \in Coordinates, y \in Coordinates, delay \in Delays :
        /\ page.mode = "touch" /\ page.down
        /\ page.steps < MaxTouchSteps
        /\ page' = [TouchEvent(page, "touchmove", delay) EXCEPT
                        !.touchMoved = IF \/ Abs(x - page.startX) > MoveThreshold
                                          \/ Abs(y - page.startY) > MoveThreshold
                                       THEN TRUE ELSE @,
                        !.strayed = @ \/ Abs(x - page.beganX) > MoveThreshold
                                      \/ Abs(y - page.beganY) > MoveThreshold]
        /\ UNCHANGED <<storeVars, dom, cm>>

\* touchEnd(e): the condition reads touchMovlog, a name nothing declares, and
\* the ReferenceError leaves the listener before handler(e)
touchEnd(p) == [p EXCEPT !.threw = TRUE]

\* the finger is lifted
TouchEnd ==
    \E delay \in Delays :
        /\ page.mode = "touch" /\ page.down
        /\ page.steps < MaxTouchSteps
        /\ page' = touchEnd([TouchEvent(page, "touchend", delay) EXCEPT !.down = FALSE])
        /\ UNCHANGED <<storeVars, dom, cm>>

NextTouch == TouchAttach \/ TouchStart \/ TouchMove \/ TouchEnd

SpecTouch == Init /\ [][NextTouch]_vars

---------------------------------------------------------------------------
(* SpecRecords: elements rendered in fine-grained mode.  The props of a    *)
(* description are a sequence, in the order of the object's keys, of        *)
(* reactive attributes and of one children array of descriptions; the       *)
(* unsubscribe function of the i-th prop of element e is <<e, i>>           *)

MaxRecordRenders == 2

Reactive == [k |-> "reactive"]
Children(list) == [k |-> "children", list |-> list]

\* the descriptions of the children: no prop, one or two reactive attributes
LeafProps == {<< >>, <<Reactive>>, <<Reactive, Reactive>>}
LeafLists == UNION {[1 .. n -> LeafProps] : n \in 0 .. 2}

\* the descriptions rendered: a children array between reactive attributes
RecordProps ==
    {before \o <<Children(list)>> \o after :
        before \in {<< >>, <<Reactive>>}, after \in {<< >>, <<Reactive>>}, list \in LeafLists}

\* the renderer: tempArray, the record of each element in this.subscriptions
\* (<< >> for none), and the unsubscribe functions made for each element
NoRecords == [tempArray |-> << >>, records |-> << >>, own |-> << >>]

RECURSIVE createElementFineGrained(_, _)
RECURSIVE ProcessProps(_, _, _, _)
RECURSIVE RenderEach(_, _)

\* #updateChildren for an array of descriptions: render for each of them
RenderEach(r, list) ==
    IF list = << >> THEN r
    ELSE RenderEach(createElementFineGrained(r, Head(list)), Tail(list))

\* the for loop of #createElementFineGrained from the i-th prop of element e
\* on: subscriptions is this.tempArray, whoever uses it meanwhile
ProcessProps(r, e, props, i) ==
    IF i > Len(props) THEN r
    ELSE ProcessProps(
             IF props[i].k = "reactive"
             THEN [r EXCEPT !.tempArray = Append(@, <<e, i>>),
                            !.own[e] = @ \cup {<<e, i>>}]
             ELSE RenderEach(r, props[i].list),
             e, props, i + 1)

\* the end of #createElementFineGrained: the record is a copy of subscriptions
SetRecord(r, e) ==
    IF Len(r.tempArray) > 0 THEN [r EXCEPT !.records[e] = r.tempArray] ELSE r

\* #createElementFineGrained(tagName, props) for the element Len(r.records) + 1
createElementFineGrained(r, props) ==
    SetRecord(ProcessProps([r EXCEPT !.tempArray = << >>,
                                     !.records = Append(@, << >>),
                                     !.own = Append(@, {})],
                           Len(r.records) + 1, props, 1),
              Len(r.records) + 1)

\* render(vnode) in fine-grained mode
RecordRender ==
    \E props \in RecordProps :
        /\ dom.mode \in {"none", "records"}
        /\ dom.runs < MaxRecordRenders
        /\ dom' = [mode |-> "records", runs |-> dom.runs + 1, props |-> props,
                   r |-> createElementFineGrained(
                             IF dom.mode = "none" THEN NoRecords ELSE dom.r, props)]
        /\ UNCHANGED <<storeVars, cm, page>>

NextRecords == RecordRender

SpecRecords == Init /\ [][NextRecords]_vars

---------------------------------------------------------------------------
(* The vocabulary of the properties *)

\* p is q or an ancestor path of q
AncestorOrSelf(p, q) == p = q \/ StartsWith(q, p \o <<Dot>>)

\* p is q, an ancestor path of q or a descendant path of q
Related(p, q) == AncestorOrSelf(p, q) \/ AncestorOrSelf(q, p)

\* the invocations between log[from] and log[to] made by the pass running at
\* call depth depth itself, not by writes of the callbacks it ran
DirectCalls(from, to, depth) ==
    {j \in (from + 1)..(to - 1) : log[j].ev = "callback" /\ log[j].depth = depth}

\* the log holds the end of the flush that began at log[i]
FlushEnded(i) == \E k \in 1..Len(log) : log[k].ev = "flushed" /\ log[k].from = i

FlushEnd(i) == CHOOSE k \in 1..Len(log) : log[k].ev = "flushed" /\ log[k].from = i

---------------------------------------------------------------------------
(* The properties *)

\* C1: a tracked computation that has run is subscribed to no path its most
\* recent run did not read
C1_SubscribedToLatestReadsOnly ==
    \A c \in UpdateFns :
        lastRead[c].ran =>
            \A p \in Paths : SetHas(MapGet(subscribers, p), c) => SetHas(lastRead[c].deps, p)

\* C2: when a non-batched write that changed the stored value returns, every
\* internal subscriber registered on the path, an ancestor or a descendant and
\* every external subscriber matching the path has been called since the write
\* was called, whoever called the write
C2_NotifiedBeforeReturn ==
    \A i \in 1..Len(log) :
        log[i].ev = "write" =>
            /\ \A e \in 1..Len(log[i].subscribers) :
                    Related(log[i].subscribers[e].path, log[i].path) =>
                        \A k \in 1..Len(log[i].subscribers[e].subs) :
                            \E j \in (log[i].from + 1)..(i - 1) :
                                /\ log[j].ev = "callback"
                                /\ log[j].reg = "internal"
                                /\ log[j].callback = log[i].subscribers[e].subs[k]
            /\ \A e \in 1..Len(log[i].externalSubscribers) :
                    \A k \in 1..Len(log[i].externalSubscribers[e].subs) :
                        (IF log[i].externalSubscribers[e].subs[k].hierarchical
                         THEN AncestorOrSelf(log[i].externalSubscribers[e].path, log[i].path)
                         ELSE log[i].externalSubscribers[e].path = log[i].path) =>
                            \E j \in (log[i].from + 1)..(i - 1) :
                                /\ log[j].ev = "callback"
                                /\ log[j].reg = "external"
                                /\ log[j].id = log[i].externalSubscribers[e].subs[k].id

\* C3: every setState and every executeBatch call returns or throws, whatever
\* the subscribers it runs write back
C3_EveryCallTerminates == last.outcome # "diverged"

\* the paths a flush touched: the paths of the writes it applied and their ancestors
Touched(flush, p) == \E u \in 1..Len(flush.applied) : AncestorOrSelf(p, flush.applied[u].path)

\* no write in log[from+1..to-1], immediate or flushed, changed a path the
\* flush touched
Undisturbed(flush, from, to) ==
    \A w \in (from + 1)..(to - 1) :
        /\ log[w].ev = "write" => ~Touched(flush, log[w].path)
        /\ log[w].ev = "flush" =>
                \A u \in 1..Len(log[w].applied) : ~Touched(flush, log[w].applied[u].path)

\* C4 as stated: when a batch closes, each subscriber registered on a path
\* the batch changed (the path itself or a descendant was written) is run
\* exactly once by the flush, and what it reads at that path is the value the
\* batch left there
C4_OneRunSeeingFinalValue ==
    \A i \in 1..Len(log) :
        (log[i].ev = "flush" /\ FlushEnded(i)) =>
            /\ \A e \in 1..Len(log[i].subscribers) :
                    Touched(log[i], log[i].subscribers[e].path) =>
                        \A k \in 1..Len(log[i].subscribers[e].subs) :
                            Cardinality({j \in DirectCalls(i, FlushEnd(i), log[i].depth) :
                                            /\ log[j].reg = "internal"
                                            /\ log[j].path = log[i].subscribers[e].path
                                            /\ log[j].callback = log[i].subscribers[e].subs[k]}) = 1
            /\ \A j \in DirectCalls(i, FlushEnd(i), log[i].depth) :
                    ReadTree(log[j].tree, log[j].path, Null) = ReadTree(log[i].tree, log[j].path, Null)

\* C4, amended: a flush holds one write per path, the last one queued (the
\* batch that writes a = 1 then a = 2 flushes a = 2 alone); each subscriber
\* registered on a path the batch changed is run exactly once by the flush;
\* and it reads at that path the value the batch left there unless a
\* subscriber run earlier in the same flush wrote to a path the batch changed
C4_OneRunSeeingFinalValueUndisturbed ==
    /\ (last.op = "executeBatch" /\ ~last.pre.isBatching /\ last.fn = "twice" /\ log # << >>) =>
            log[1].updates = <<[path |-> P_a, value |-> Num(2)]>>
    /\ \A i \in 1..Len(log) :
            log[i].ev = "flush" =>
                /\ \A u1, u2 \in 1..Len(log[i].updates) :
                        log[i].updates[u1].path = log[i].updates[u2].path => u1 = u2
                /\ FlushEnded(i) =>
                        /\ \A e \in 1..Len(log[i].subscribers) :
                                Touched(log[i], log[i].subscribers[e].path) =>
                                    \A k \in 1..Len(log[i].subscribers[e].subs) :
                                        Cardinality({j \in DirectCalls(i, FlushEnd(i), log[i].depth) :
                                                        /\ log[j].reg = "internal"
                                                        /\ log[j].path = log[i].subscribers[e].path
                                                        /\ log[j].callback = log[i].subscribers[e].subs[k]}) = 1
                        /\ \A j \in DirectCalls(i, FlushEnd(i), log[i].depth) :
                                Undisturbed(log[i], i, j) =>
                                    ReadTree(log[j].tree, log[j].path, Null)
                                        = ReadTree(log[i].tree, log[j].path, Null)

\* C4 happens: a batch wrote a = 1 then a = 2 and the flush ran a subscriber
\* of a, which read 2
C4_Witness ==
    /\ last.op = "executeBatch"
    /\ ~last.pre.isBatching
    /\ last.fn = "twice"
    /\ Len(log) > 1
    /\ log[1].ev = "flush"
    /\ log[2].ev = "callback"
    /\ log[2].path = P_a
    /\ ReadTree(log[2].tree, P_a, Null) = Num(2)

\* the tree after the queued writes are assigned in the order of the queue
RECURSIVE Assigned(_, _)
Assigned(tree, updates) ==
    IF updates = << >> THEN tree
    ELSE Assigned(AssignIn(tree, getPathParts(Head(updates).path), Head(updates).value),
                  Tail(updates))

\* C5: a setState called while a batch is open changes neither the tree nor
\* runs a subscriber; nothing a batch function writes reaches the tree before
\* the flush; and when a flush notifies, every queued write is in the tree:
\* the first subscriber it runs already sees them all
C5_DeferredThenAtomic ==
    /\ (last.op = "setState" /\ last.pre.isBatching) =>
            (state = last.pre.state /\ log = << >>)
    /\ (last.op = "executeBatch" /\ ~last.pre.isBatching /\ log # << >>) =>
            (log[1].ev = "flush" /\ log[1].before = last.pre.state)
    /\ \A i \in 1..Len(log) :
            log[i].ev = "flush" =>
                /\ log[i].tree = Assigned(log[i].before, log[i].updates)
                /\ (i < Len(log) /\ log[i + 1].ev = "callback") => log[i + 1].tree = log[i].tree

\* C5 happens: a batch of two writes was flushed and a subscriber was run
C5_Witness ==
    /\ last.op = "executeBatch"
    /\ Len(log) > 1
    /\ log[1].ev = "flush"
    /\ Len(log[1].updates) = 2
    /\ log[2].ev = "callback"

\* C5 happens: a setState was called while a batch was open
C5_WitnessOpen == last.op = "setState" /\ last.pre.isBatching /\ isValidPath(last.path)

\* C6: a setState that follows a value-changing setState of a deep-equal value
\* to the same path, the value still being stored, changes nothing and runs
\* no subscriber
C6_DeepEqualRewriteIsNoOp ==
    (/\ last.op = "setState"
     /\ ~last.pre.isBatching
     /\ isValidPath(last.path)
     /\ last.prev.op = "setState"
     /\ last.prev.wrote
     /\ last.prev.path = last.path
     /\ deepEquals(last.prev.value, last.value)
     /\ ReadTree(last.pre.state, last.path, Undefined) = last.prev.value) =>
        (state = last.pre.state /\ log = << >>)

\* C7: a non-batched write that changed the stored value runs every internal
\* subscriber registered on its path, on an ancestor or on a descendant, and
\* runs no internal subscriber for any other path
C7_CoverageOfWrite ==
    \A i \in 1..Len(log) :
        log[i].ev = "write" =>
            /\ \A e \in 1..Len(log[i].subscribers) :
                    Related(log[i].subscribers[e].path, log[i].path) =>
                        \A k \in 1..Len(log[i].subscribers[e].subs) :
                            \E j \in DirectCalls(log[i].from, i, log[i].depth) :
                                /\ log[j].reg = "internal"
                                /\ log[j].path = log[i].subscribers[e].path
                                /\ log[j].callback = log[i].subscribers[e].subs[k]
            /\ \A j \in DirectCalls(log[i].from, i, log[i].depth) :
                    log[j].reg = "internal" => Related(log[j].path, log[i].path)

\* a subscription registered on path s matches a write to path c
Matches(sub, s, c) == IF sub.hierarchical THEN AncestorOrSelf(s, c) ELSE s = c

\* C8: an external subscriber is called for a write exactly when its
\* subscription matches the written path, for an immediate write made outside
\* any notification pass and for the writes a batch flush applied
C8_ExternalMatching ==
    \A i \in 1..Len(log) :
        /\ (log[i].ev = "write" /\ log[i].depth = 0) =>
                \A e \in 1..Len(log[i].externalSubscribers) :
                    \A k \in 1..Len(log[i].externalSubscribers[e].subs) :
                        Matches(log[i].externalSubscribers[e].subs[k],
                                log[i].externalSubscribers[e].path, log[i].path)
                        <=> \E j \in DirectCalls(log[i].from, i, log[i].depth) :
                                /\ log[j].reg = "external"
                                /\ log[j].id = log[i].externalSubscribers[e].subs[k].id
        /\ (log[i].ev = "flush" /\ FlushEnded(i)) =>
                \A e \in 1..Len(log[i].externalSubscribers) :
                    \A k \in 1..Len(log[i].externalSubscribers[e].subs) :
                        (\E u \in 1..Len(log[i].applied) :
                            Matches(log[i].externalSubscribers[e].subs[k],
                                    log[i].externalSubscribers[e].path, log[i].applied[u].path))
                        <=> \E j \in DirectCalls(i, FlushEnd(i), log[i].depth) :
                                /\ log[j].reg = "external"
                                /\ log[j].id = log[i].externalSubscribers[e].subs[k].id

\* C9: in both registries no path maps to an empty set and no callback is
\* registered twice on a path
C9_RegistryInvariant ==
    /\ \A e \in 1..Len(subscribers) :
            /\ subscribers[e].subs # << >>
            /\ \A k1, k2 \in 1..Len(subscribers[e].subs) :
                    subscribers[e].subs[k1] = subscribers[e].subs[k2] => k1 = k2
    /\ \A e \in 1..Len(externalSubscribers) :
            /\ externalSubscribers[e].subs # << >>
            /\ \A k1, k2 \in 1..Len(externalSubscribers[e].subs) :
                    (/\ externalSubscribers[e].subs[k1].callback = externalSubscribers[e].subs[k2].callback
                     /\ externalSubscribers[e].subs[k1].hierarchical = externalSubscribers[e].subs[k2].hierarchical)
                        => k1 = k2

\* C10: when the executeBatch that opened a batch returns or throws, and when
\* the promise it returned settles, the store is not batching and its queue
\* is empty; the caller gets what the function returned, threw, resolved or
\* rejected with
C10_BatchClosed ==
    /\ (/\ last.op = "executeBatch"
        /\ ~last.pre.isBatching
        /\ last.outcome # "diverged"
        /\ Fn(last.fn).end # "promise") =>
            /\ ~isBatching
            /\ batchQueue = << >>
            /\ IF Fn(last.fn).end = "throw"
               THEN last.outcome = "threw"
               ELSE last.outcome = "returned" /\ last.ret = FnResult
    /\ (last.op = "settle" /\ last.fn = "opener" /\ last.outcome # "diverged") =>
            /\ ~isBatching
            /\ batchQueue = << >>
            /\ IF last.how = "reject"
               THEN last.outcome = "threw"
               ELSE last.outcome = "returned" /\ last.ret = FnResult

\* C10 happens: the function threw after it queued a write
C10_Witness ==
    /\ last.op = "executeBatch"
    /\ ~last.pre.isBatching
    /\ last.fn = "throws"
    /\ last.outcome = "threw"
    /\ log # << >>

\* C10 happens: the promise of the function that opened the batch rejected
C10_WitnessRejected ==
    /\ last.op = "settle"
    /\ last.fn = "opener"
    /\ last.how = "reject"
    /\ last.pre.batchQueue # << >>

\* C11: getState(p, d) returns d when p is invalid and when setState was
\* never called with p, an ancestor of p or a descendant of p
C11_DefaultWhereNeverWritten ==
    (/\ last.op = "getState"
     /\ \/ ~isValidPath(last.path)
        \/ \A q \in written : ~isValidPath(q) \/ ~Related(q, last.path)) =>
        last.ret = last.value

\* C12: after setState(p, v) with a valid path on a store without middleware
\* and subscribers, the tree is the previous tree with v assigned at p,
\* getState(p) returns v, and every path that is neither p, an ancestor nor
\* a descendant of p reads as before
C12_WritePostcondition ==
    (last.op = "setState" /\ isValidPath(last.path)) =>
        /\ state = AssignIn(last.pre.state, getPathParts(last.path), last.value)
        /\ getState(Store, last.path, Null) = last.value
        /\ \A q \in TreePaths :
                (isValidPath(q) /\ ~Related(q, last.path)) =>
                    \A d \in TreeDefaults : ReadTree(state, q, d) = ReadTree(last.pre.state, q, d)

\* the nodes an element had for the keys of a list that are not keys of another
NodesOnlyIn(nodes, keys, others) ==
    {nodes[i] : i \in {j \in DOMAIN keys : \A m \in DOMAIN others : others[m] # keys[j]}}

\* a batch-mode update from one keyed list to another
ListChanged ==
    /\ dom.mode = "batch"
    /\ dom.op = "update"
    /\ dom.preState.t = "list"
    /\ dom.result.t = "list"

\* C13: when the children function returns "ignore" on a re-run, in either
\* mode, the element has the same child nodes in the same order as before the
\* run, and no node was created or torn down.
C13_IgnoreLeavesChildren ==
    (dom.op = "update" /\ dom.result = Ignore) =>
        /\ dom.kids = dom.pre
        /\ dom.created = {}
        /\ dom.cleaned = {}

\* a re-run returned "ignore" after a non-empty list was rendered, in each mode
C13_Witness ==
    /\ dom.op = "update" /\ dom.result = Ignore /\ dom.mode = "batch" /\ Len(dom.pre) = 3

C13_WitnessFineGrained ==
    /\ dom.op = "update" /\ dom.result = Ignore /\ dom.mode = "fine-grained" /\ Len(dom.pre) = 3

InstanceElements ==
    {e \in 1 .. Len(cm.els) :
        /\ cm.els[e].kind = "component"
        /\ cm.contexts[cm.els[e].inst].componentFn.shape \in {"lifecycle", "reactive"}}

\* C15: every element rendered (with props that were not pending) from a
\* description that has the component's own tag as a child has a diagnostic
\* node as the child in place of the tag, whether the factory returned the
\* description synchronously or as a deferred value.
C15_RecursionGuarded ==
    \A e \in 1 .. Len(cm.els) :
        (cm.els[e].kind = "component" /\ cm.els[e].selfRef /\ cm.els[e].props = "none") =>
            \E d \in 1 .. Len(cm.els) :
                cm.els[d].parent = e /\ cm.els[d].kind = "diagnostic"

\* C17: after a teardown, every path an instance of a torn-down element
\* passed to newState reads as the caller's default.
C17_LocalStateDeleted ==
    cm.op = "teardown" =>
        \A e \in cm.torn : cm.els[e].inst # 0 =>
            \A path \in cm.contexts[cm.els[e].inst].componentStates :
                ReadTree(state, path, Num(0)) = Num(0)

\* C18: after a teardown, a torn-down instance element is in neither
\* registry, and the onUnmount hook of an instance that has one ran once.
C18_OutOfBothRegistries ==
    cm.op = "teardown" =>
        \A e \in cm.torn \cap InstanceElements :
            /\ e \notin cm.instances
            /\ cm.namedComponents # e
            /\ cm.contexts[cm.els[e].inst].componentFn.shape = "lifecycle" =>
                   cm.els[e].unmounted = 1

\* C19: create with a pending prop returns a placeholder; when the prop has
\* settled and the placeholder is in the document, the placeholder is replaced:
\* by the component rendered with the resolved props if the prop resolved, by
\* an error node if it rejected (for a factory that returns synchronously).
C19_PendingProps ==
    /\ (cm.op = "render" /\ cm.task.outcome \in {"resolves", "rejects"}) =>
           cm.els[cm.real].kind = "placeholder"
    /\ (cm.op = "settle" /\ cm.task.kind = "props" /\ cm.attached
            /\ ~cm.task.componentFn.deferred) =>
           /\ cm.els[cm.task.placeholder].parent = 0
           /\ cm.els[cm.real].parent = 1
           /\ cm.task.outcome = "resolves" =>
                  cm.els[cm.real].kind = "component" /\ cm.els[cm.real].props = "value"
           /\ cm.task.outcome = "rejects" => cm.els[cm.real].kind = "error"

\* C16: a node whose deferred value rejected has the class juris-async-error
\* and has neither the placeholder class nor the attribute value 'loading'.
C16_RejectedShowsErrorOnly ==
    \A n \in DOMAIN page.nodes :
        page.nodes[n].promise = "rejected" =>
            /\ ErrorClass \in page.nodes[n].classes
            /\ LoadingClass \notin page.nodes[n].classes
            /\ page.nodes[n].attr # "loading"

\* C20: no node that a render with the hydration flag made is in the
\* container while its deferred value is pending.
C20_HydrationShowsNoPending ==
    page.mode = "hydration" =>
        \A n \in DOMAIN page.nodes :
            (page.nodes[n].render = page.renders /\ page.nodes[n].at = "container") =>
                page.nodes[n].promise # "pending"

\* the middleware that do not throw
Surviving(mws) == SelectSeq(mws, LAMBDA m : m \notin {"throws", "throwsNull"})

\* the store as it was when the last call was made, between two calls
PreStore ==
    [Store EXCEPT !.state = last.pre.state, !.subscribers = last.pre.subscribers,
                  !.externalSubscribers = last.pre.externalSubscribers,
                  !.scopes = last.pre.currentTracking,
                  !.currentTracking = Len(last.pre.currentTracking)]

\* the internal subscribers events tell were invoked, each with its path
Triggered(events) ==
    {<<events[i].path, events[i].callback>> :
        i \in {j \in 1..Len(events) : events[j].ev = "callback" /\ events[j].reg = "internal"}}

\* the external subscriptions events tell were invoked
Notified(events) ==
    {events[i].id :
        i \in {j \in 1..Len(events) : events[j].ev = "callback" /\ events[j].reg = "external"}}

\* the value the last write handed to the middleware, and what it found stored
LastOld == ReadTree(last.pre.state, last.path, Null)

\* the immediate write: the call returns, the tree holds at the path the value
\* the other middleware make in their order, and when that value differs from
\* the old one the write notified its subscribers.
C22_ThrowingMiddlewareSkippedImmediate ==
    last.op = "setState" =>
        /\ last.outcome = "returned"
        /\ ReadTree(state, last.path, Null)
               = runMiddleware(Surviving(middleware), last.path, LastOld, last.value)
        /\ ~deepEquals(LastOld, runMiddleware(Surviving(middleware), last.path, LastOld, last.value)) =>
               /\ Wrote(log)
               /\ \A c \in NotifyCallbacks :
                      SetHas(MapGet(last.pre.subscribers, last.path), c) =>
                          <<last.path, c>> \in Triggered(log)

\* the same for the write executeBatch flushes
C22_ThrowingMiddlewareSkippedBatched ==
    (last.op = "executeBatch" /\ last.fn = "one") =>
        /\ last.outcome = "returned"
        /\ ReadTree(state, P_a, Null)
               = runMiddleware(Surviving(middleware), P_a, ReadTree(last.pre.state, P_a, Null), Num(2))
        /\ ~deepEquals(ReadTree(last.pre.state, P_a, Null), ReadTree(state, P_a, Null)) =>
               \A c \in NotifyCallbacks :
                   SetHas(MapGet(last.pre.subscribers, P_a), c) => <<P_a, c>> \in Triggered(log)

\* C22: a middleware that throws during an immediate or a batched write is
\* caught and contributes no transformation, the other middleware run in their
\* order, and the write proceeds: tree assigned, subscribers notified.
C22_ThrowingMiddlewareSkipped ==
    C22_ThrowingMiddlewareSkippedImmediate /\ C22_ThrowingMiddlewareSkippedBatched

\* C23: when a subscriber callback throws during the notification pass of
\* an immediate write whose middleware ran, setState returns normally, every internal subscriber
\* on the path, its ancestors and its descendants and every matching external
\* subscription was still invoked, and the guards are as before the write:
\* isUpdating false, currentlyUpdating empty, the tracking scope unchanged.
C23_ThrowingSubscriberContained ==
    (last.op = "setState" /\ \A i \in 1..Len(middleware) : middleware[i] # "throwsNull") =>
        /\ last.outcome = "returned"
        /\ isUpdating = FALSE
        /\ currentlyUpdating = {}
        /\ currentTracking = last.pre.currentTracking
        /\ Wrote(log) =>
               /\ \A q \in NotifyPaths, c \in NotifyCallbacks :
                      (Related(q, last.path) /\ SetHas(MapGet(last.pre.subscribers, q), c)) =>
                          <<q, c>> \in Triggered(log)
               /\ \A q \in NotifyPaths :
                      AncestorOrSelf(q, last.path) =>
                          \A i \in 1..Len(MapGet(last.pre.externalSubscribers, q)) :
                              MapGet(last.pre.externalSubscribers, q)[i].id \in Notified(log)

\* callback is in no subscriber set of the internal registry
Unregistered(callback) ==
    \A i \in 1..Len(subscribers) : ~SetHas(subscribers[i].subs, callback)

\* C26: after DOMRenderer.cleanup(element) the update function of the
\* element's binding is registered under no path of the internal registry.
C26_CleanupUnregistersBinding ==
    last.op = "cleanup" => Unregistered(last.callback)

\* C30: a tracked computation that only writes 'a.x' has no dependencies: no
\* run of it records 'a.x' (or any path) in its dependency set.
C30_WriteIsNotADependency ==
    \A i \in 1..Len(log) :
        (log[i].ev = "ran" /\ log[i].callback = "wx") => log[i].deps = << >>

\* C24: after a keyed reconciliation every previous child that is no longer
\* a child was torn down and is in the recycle pool of its tag, and the pool
\* holds at most RECYCLE_POOL_SIZE nodes.
C24_UnmatchedChildrenRecycled ==
    /\ Len(dom.recyclePool) <= RECYCLE_POOL_SIZE
    /\ (dom.op = "update" /\ dom.mode = "batch") =>
           \A i \in DOMAIN dom.pre :
               (\A j \in DOMAIN dom.kids : dom.kids[j] # dom.pre[i]) =>
                   /\ dom.pre[i] \in dom.cleaned
                   /\ \E j \in DOMAIN dom.recyclePool : dom.recyclePool[j] = dom.pre[i]

\* C25: after a keyed reconciliation a child that was matched by key and
\* reused shows the plain properties of its new description: attribute, text
\* and style.
C25_ReusedChildShowsNewProperties ==
    (dom.op = "update" /\ dom.result.t = "list" /\ dom.preState # dom.result) =>
        \A i \in DOMAIN dom.kids :
            (\E j \in DOMAIN dom.pre : dom.pre[j] = dom.kids[i]) =>
                dom.shown[dom.kids[i]] = dom.result.props[i]

\* C27: in fine-grained mode, when a re-run of the children function replaces
\* the children, cleanup was called for every replaced node.
C27_ReplacedChildrenTornDown ==
    (dom.mode = "fine-grained" /\ dom.op = "update" /\ dom.kids # dom.pre) =>
        \A i \in DOMAIN dom.pre :
            (\A j \in DOMAIN dom.kids : dom.kids[j] # dom.pre[i]) => dom.pre[i] \in dom.cleaned

\* C28: the single write of executeBatch(() => setState('a', 2)) triggers the
\* internal subscribers that the same write triggers when issued directly in
\* the same store.
C28_BatchTriggersSameSubscribers ==
    (last.op = "executeBatch" /\ last.fn = "one") =>
        Triggered(log) = Triggered(setState(PreStore, P_a, Num(2)).log)

\* C29: creating a reactive binding leaves the store's active tracking scope
\* exactly as it was before the binding ran; in particular no scope is active
\* after a binding was created while no tracked computation was running.
C29_TrackingScopeRestored ==
    (last.op = "createReactiveUpdate" /\ last.outcome = "returned") =>
        currentTracking = last.pre.currentTracking

\* updateInstance has run to its end: at once when no prop is deferred, in its
\* then-handler otherwise
UpdateDone ==
    cm.op = "settle" \/ (cm.op = "updateInstance" /\ ~hasAsyncProps(cm.newProps))

\* C21: updateInstance(node, newProps) calls neither onUpdate nor render when
\* newProps, its deferred props resolved, is deep-equal to the props the
\* instance had; otherwise it calls onUpdate(oldProps, newProps) when the
\* instance has one, then render, and the node shows the result of that render.
C21_UpdateSkippedWhenEqual ==
    UpdateDone =>
        IF deepEquals(cm.oldProps, Resolved(cm.newProps))
        THEN cm.calls = << >>
        ELSE /\ cm.calls = (IF cm.kind = "hooks"
                            THEN <<[fn |-> "onUpdate", oldProps |-> cm.oldProps,
                                    newProps |-> Resolved(cm.newProps)]>>
                            ELSE << >>) \o <<[fn |-> "render"]>>
             /\ cm.content = cm.renders

\* C31: while the promise an executeBatch callback returned is pending, a
\* setState made outside the callback takes effect before it returns: the
\* tree holds the value at the path.
C31_OpenAsyncBatchLeavesWritesImmediate ==
    (/\ last.op = "setState"
     /\ last.path \in Paths
     /\ last.outcome = "returned"
     /\ last.pre.isBatching
     /\ \E i \in 1..Len(promises) : promises[i].closes) =>
        ReadTree(state, last.path, Undefined) = last.value

\* C32: the value a text promise resolves to is set on the node the promise
\* was bound to, whatever became of the node since: torn down, pooled, or
\* reused for another description.
C32_LateResolutionApplied ==
    dom.op = "settle" => dom.shown[dom.settled.node].text = dom.settled.value

\* a promise resolved for a node that was recycled and now is the child of
\* another key, whose text was a plain string
C32_Witness ==
    /\ dom.op = "settle"
    /\ \E i \in DOMAIN dom.kids : dom.kids[i] = dom.settled.node
    /\ dom.jurisKey[dom.settled.node] # dom.settled.key
    /\ dom.lastChildrenState.props[1].text.t = "string"
    /\ dom.shown[dom.settled.node].text = dom.settled.value

\* the elements that are instances made of an object with hooks
Hooked ==
    {e \in 1 .. Len(cm.els) :
        /\ cm.els[e].kind = "component"
        /\ cm.contexts[cm.els[e].inst].componentFn.shape = "lifecycle"}

\* C33: onMount is not invoked inside create, it is invoked at most once for
\* an instance and once when no timer is left, and each time the node of the
\* instance had been attached to the document.
C33_OnMountAfterAttachment ==
    /\ [][cm'.op \in {"render", "settle"} => cm'.mounted = cm.mounted]_vars
    /\ [](/\ \A i, j \in DOMAIN cm.mounted : cm.mounted[i].el = cm.mounted[j].el => i = j
          /\ cm.timers = << >> =>
                 \A e \in Hooked : \E i \in DOMAIN cm.mounted : cm.mounted[i].el = e
          /\ \A i \in DOMAIN cm.mounted : cm.mounted[i].attached)

\* C34: onMount is never invoked for an instance after its onUnmount.
C34_NoMountAfterUnmount ==
    \A i \in DOMAIN cm.mounted : cm.mounted[i].unmounted = 0

\* C35: a binding that reads 'ax', renders a registered component whose
\* factory reads 'a.b', and then reads 'a' depends on 'ax' and 'a' alone: the
\* factory's read is not recorded, and the read after the creation is.
C35_ComponentBoundarySuspendsTracking ==
    lastRead["rc"].ran => lastRead["rc"].deps = <<P_ax, P_a>>

\* the binding ran again after a write and is not subscribed to 'a.b'
C35_Witness ==
    /\ lastRead["rc"].ran
    /\ last.op = "setState"
    /\ \E i \in 1..Len(log) : log[i].ev = "ran" /\ log[i].callback = "rc"
    /\ ~SetHas(MapGet(subscribers, P_ab), "rc")
    /\ SetHas(MapGet(subscribers, P_a), "rc")

\* C36: in batch mode the children rendered for a list of n descriptions are
\* n different nodes, the i-th of them made for the i-th description, also
\* when descriptions of the list have the same key.
C36_OneNodePerDescription ==
    (dom.mode = "batch" /\ dom.op \in {"mount", "update"} /\ dom.lastChildrenState = dom.result) =>
        /\ Len(dom.kids) = Len(dom.result.keys)
        /\ \A i, j \in DOMAIN dom.kids : dom.kids[i] = dom.kids[j] => i = j
        /\ \A i \in DOMAIN dom.kids : dom.jurisKey[dom.kids[i]] = dom.result.keys[i]

RECURSIVE QueuedAfter(_, _)
\* the queue after the writes of body were queued in turn, each replacing
\* the queued write to its path
QueuedAfter(queue, body) ==
    IF body = << >> THEN queue
    ELSE QueuedAfter(Append(SelectSeq(queue, LAMBDA u : u.path # Head(body).path),
                            [path |-> Head(body).path, value |-> Head(body).value]),
                     Tail(body))

\* C37: an executeBatch called while a batch is open runs its function and
\* neither opens nor closes a batch: the batch is still open, the tree is as
\* it was, nobody was notified, and the writes of the function are queued;
\* when the promise of the call that opened the batch settles, the batch is
\* closed and the queue empty.
C37_NestedBatchStaysQueued ==
    /\ (last.op = "executeBatch" /\ last.pre.isBatching) =>
           /\ isBatching
           /\ state = last.pre.state
           /\ log = << >>
           /\ batchQueue = QueuedAfter(last.pre.batchQueue, Fn(last.fn).body)
    /\ (last.op = "settle" /\ last.fn = "opener" /\ last.outcome = "returned") =>
           ~isBatching /\ batchQueue = << >>

\* a nested executeBatch queued two writes, and the batch was flushed when
\* the outer promise settled
C37_Witness ==
    /\ last.op = "settle" /\ last.fn = "opener" /\ last.outcome = "returned"
    /\ last.prev.op = "executeBatch"
    /\ last.pre.isBatching
    /\ Len(last.pre.batchQueue) >= 2
    /\ state # last.pre.state
    /\ ~isBatching

\* the call in which callback was first registered on path with subscribeInternal
Registered(path, callback) ==
    CHOOSE n \in 1 .. steps :
        /\ \E u \in unsubs : u.reg = "internal" /\ u.path = path /\ u.callback = callback /\ u.id = n
        /\ \A u \in unsubs :
               (u.reg = "internal" /\ u.path = path /\ u.callback = callback) => n <= u.id

\* the invocations of the last call, by their place in the log
Invocations(reg) == {i \in 1 .. Len(log) : log[i].ev = "callback" /\ log[i].reg = reg}

\* C38: of two internal subscribers of a path invoked by one call, the one
\* registered first is invoked first; of two external subscriptions of a
\* path likewise.
C38_RegistrationOrder ==
    /\ \A i, j \in Invocations("internal") :
           (i < j /\ log[i].path = log[j].path /\ log[i].callback # log[j].callback) =>
               Registered(log[i].path, log[i].callback) < Registered(log[j].path, log[j].callback)
    /\ \A i, j \in Invocations("external") :
           (i < j /\ log[i].path = log[j].path) => log[i].id < log[j].id

\* a write invoked two internal subscribers of one path
C38_Witness ==
    /\ last.op \in {"setState", "executeBatch"}
    /\ \E i, j \in Invocations("internal") :
           i < j /\ log[i].path = log[j].path /\ log[i].callback # log[j].callback

\* C39: at touchend the onclick handler is invoked once when no touchmove
\* since touchstart was further than the movement threshold from the start
\* and less than the time threshold has passed since touchstart, and is not
\* invoked otherwise.
C39_TapInvokesHandlerOnce ==
    (page.mode = "touch" /\ page.op = "touchend") =>
        page.invoked = IF ~page.strayed /\ page.now - page.beganAt < TimeThreshold THEN 1 ELSE 0

\* C40: the binding record of an element created in fine-grained mode holds
\* the unsubscribe functions of the element's own reactive attributes, each
\* once, and no other.
C40_RecordHoldsOwnBindings ==
    dom.mode = "records" =>
        \A e \in DOMAIN dom.r.records :
            /\ {dom.r.records[e][i] : i \in DOMAIN dom.r.records[e]} = dom.r.own[e]
            /\ Len(dom.r.records[e]) = Cardinality(dom.r.own[e])

===========================================================================
